---- MODULE Spec2Model ----
(***************************************************************************)
(* a9s, the terminal browser for AWS resources: the controller of          *)
(* internal/view/app.go (App) with the resources it drives                 *)
(* (internal/resources).                                                   *)
(*                                                                         *)
(* Threads.  The tview event loop is the UI thread: it runs one key        *)
(* handler or one queued update (QueueUpdateDraw) at a time, so every      *)
(* handler is one action.  Each `go func()` of app.go is a task of its     *)
(* own: a fetch goroutine (refreshResource), an action goroutine           *)
(* (executeEC2Action, executeS3...), a listener goroutine                  *)
(* (startAutoRefresh).  A goroutine takes one step per remote call or per  *)
(* read of shared state that the code does without synchronization, so     *)
(* the interleavings of the model are those the Go scheduler can produce.  *)
(*                                                                         *)
(* Outside the repository: the remote side (each call answers or fails),   *)
(* the user (keys, the highlighted row) and the tview widgets.  A tview    *)
(* table keeps its selected row index over Clear().                        *)
(***************************************************************************)
EXTENDS Integers, Sequences, FiniteSets, TLC

\* ---------------------------------------------------------------- bounds
\* fetch goroutines alive at once
MaxFetches == 2
\* tickers (and with them listener goroutines) created in one session
MaxTickers == 2
\* updates waiting in the QueueUpdateDraw queue
MaxQueue == 2
\* action goroutines alive at once
MaxActions == 1
\* the goroutines of switchProfile and switchRegion alive at once
MaxReconfigs == 2
\* The most entities a fetch leaves in a row cache.
MaxEntities == 2
\* Register calls made on one registry
MaxRegisters == 4
\* the most items the remote side holds for one kind (one item to a page)
MaxItems == 2
\* the remote calls of one EmptyBucket among which one may fail
MaxRemoteCalls == 5
\* the characters typed into the search field of the menu
MaxFilter == 2

\* ------------------------------------------------------------ the catalog
None == "none"
Nil == 0

\* The keys of DefaultRegistry the model carries: the two with a shortcut
\* and quick actions, and one whose fetch has a second-stage describe call.
RegistryKeys == {"ec2", "s3", "ecs"}

\* A key no Register call has ever been given.
UnknownKeys == {"nope"}

\* Registry.Get: the resource and whether it is there.
RegistryGet(key) == [res |-> IF key \in RegistryKeys THEN key ELSE None,
                     ok  |-> key \in RegistryKeys]

\* Resource.Name()
Name(k) ==
    CASE k = "ec2" -> "EC2 Instances"
      [] k = "s3"  -> "S3 Buckets"
      [] k = "ecs" -> "ECS Clusters"
      [] OTHER     -> ""

\* What the remote side holds.  EC2 answers DescribeInstances in pages.
RemoteEC2 == << <<"i-1">>, <<"i-2">> >>
RemoteS3  == <<"b-1">>
RemoteECS == <<"c-1">>

\* An entity of a row cache: its identifier and one described field.
Entity(id, detail) == [id |-> id, detail |-> detail]

\* parseInstance and its like: every field of an instance comes from the page.
ParsePage(page) == [i \in 1..Len(page) |-> Entity(page[i], "ok")]

VARIABLES
    current,        \* App.current: the selected resource's key, or None
    cache,          \* the row cache of each resource (e.instances, s.buckets, e.clusters)
    fetches,        \* the fetch goroutines of refreshResource, in spawn order
    updates,        \* the QueueUpdateDraw queue
    actions,        \* the action goroutines of execute..., in spawn order
    status,         \* App.status, the status line
    tableRows,      \* App.table: the data rows drawn
    tableTitle,     \* App.table's title
    selRow,         \* App.table's selected row (0 is the header row)
    frontPage,      \* the front page of App.pages
    confirm,        \* the confirmation prompt on the "confirm" page
    autoRefresh,    \* App.autoRefresh
    refreshTicker,  \* App.refreshTicker: a ticker of tickers, or Nil
    tickers,        \* every time.Ticker made so far
    listeners,      \* the listener goroutines of startAutoRefresh
    stopClosed,     \* App.stopRefresh is closed (Run has returned)
    crashed,        \* a goroutine has panicked: the process is gone
    cycle,          \* history: the refresh that runs alone, what it started from
    client,         \* the client.Client the App holds: region, profile, service handles
    reconfigs,      \* the goroutines of switchProfile and switchRegion, in spawn order
    header,         \* App.header: the region and the profile it shows
    registry,       \* a resources.Registry: its map from key to resource
    registered,     \* the Register calls made on that registry, in call order
    probe           \* the last call made on a resource or a registry, and its result

vars == <<current, cache, fetches, updates, actions, status, tableRows, tableTitle,
          selRow, frontPage, confirm, autoRefresh, refreshTicker, tickers,
          listeners, stopClosed, crashed, cycle, client, reconfigs, header,
          registry, registered, probe>>

uiVars    == <<status, tableRows, tableTitle, selRow, frontPage, confirm>>
timerVars == <<autoRefresh, refreshTicker, tickers, listeners>>
restVars  == <<client, reconfigs, header, registry, registered, probe>>

\* ------------------------------------------------------------- status line
\* updateStatus(text): the text by its kind, the resource name and the count in it.
Status(kind, res, n) == [kind |-> kind, res |-> res, n |-> n]

\* No refresh runs alone.
NoCycle == [lone |-> FALSE, shown |-> <<>>, before |-> <<>>]

NoConfirm == [kind |-> "none", action |-> "", id |-> ""]

\* Resource.Rows(): one row per cached entity, in cache order.
Rows(k) == [i \in 1..Len(cache[k]) |-> <<cache[k][i].id, cache[k][i].detail>>]

\* Resource.GetID(index), index counted from 0.
GetID(k, index) ==
    IF index >= 0 /\ index < Len(cache[k]) THEN cache[k][index + 1].id ELSE ""

\* client.New: every service handle is made from the one loaded configuration.
Services == {"ec2", "s3", "ecs"}
Config(region, profile) == [region |-> region, profile |-> profile]
InitClient ==
    [region |-> "us-east-1", profile |-> "default",
     handles |-> [s \in Services |-> Config("us-east-1", "default")]]

\* App.updateHeader: the header shows the client's region and profile.
HeaderOf(c) == [region |-> c.region, profile |-> c.profile]

\* DefaultRegistry: the map from key to resource (a resource is named by the
\* key of its kind).
DefaultRegistry == [k \in RegistryKeys |-> k]

\* The Register calls DefaultRegistry makes, in the order it makes them.
DefaultRegistered ==
    <<[key |-> "ec2", res |-> "ec2"], [key |-> "s3", res |-> "s3"],
      [key |-> "ecs", res |-> "ecs"]>>

\* No call has been made yet.
NoProbe == [op |-> "none"]

\* New: the state after construction.
Init ==
    /\ current = None
    /\ cache = [k \in RegistryKeys |-> <<>>]
    /\ fetches = <<>>
    /\ updates = <<>>
    /\ actions = <<>>
    /\ status = Status("help", "", 0)
    /\ tableRows = <<>>
    /\ tableTitle = "Resources"
    /\ selRow = 0
    /\ frontPage = "main"
    /\ confirm = NoConfirm
    /\ autoRefresh = TRUE
    /\ refreshTicker = Nil
    /\ tickers = <<>>
    /\ listeners = <<>>
    /\ stopClosed = FALSE
    /\ crashed = FALSE
    /\ cycle = NoCycle
    /\ client = InitClient
    /\ reconfigs = <<>>
    /\ header = HeaderOf(InitClient)
    /\ registry = DefaultRegistry
    /\ registered = DefaultRegistered
    /\ probe = NoProbe

\* App.ctx is the context.Background() that Run of internal/main.go makes: it
\* has no cancel function, and its Done channel never delivers.
ctxDone == FALSE

\* The process is there and the event loop is running.
Alive == ~crashed /\ ~stopClosed

RemoveAt(s, i) == [j \in 1..(Len(s) - 1) |-> IF j < i THEN s[j] ELSE s[j + 1]]


\* ------------------------------------------------- refresh and the fetches
\* The goroutine refreshResource starts: it has not yet read a.current.
NewFetch == [pc |-> "spawned", res |-> None, stage |-> 0]

\* A refresh is outstanding: its goroutine lives or its update is queued.
Outstanding ==
    fetches /= <<>> \/ \E j \in DOMAIN updates : updates[j].kind = "fetch"

\* History kept when a refresh is asked for: a refresh that starts with none
\* outstanding runs alone, and the rows then on screen are remembered.
cycleAtRefresh ==
    IF Outstanding THEN NoCycle
    ELSE [lone |-> TRUE, shown |-> tableRows, before |-> <<>>]

\* App.refreshResource with a.current = cur: nothing without a resource, else
\* the status says Loading, the table is cleared and a fetch goroutine starts.
refreshResource(cur) ==
    IF cur = None
    THEN UNCHANGED <<status, tableRows, fetches, cycle>>
    ELSE /\ Len(fetches) < MaxFetches
         /\ status' = Status("loading", "", 0)
         /\ tableRows' = <<>>
         /\ fetches' = Append(fetches, NewFetch)
         /\ cycle' = cycleAtRefresh

\* The goroutine evaluates a.current.Fetch(...): it reads a.current now, and
\* Fetch begins by replacing the row cache with an empty one.
FetchStart(i) ==
    /\ ~crashed
    /\ fetches[i].pc = "spawned"
    /\ fetches' = [fetches EXCEPT ![i] = [pc |-> "run", res |-> current, stage |-> 1]]
    /\ cache' = [cache EXCEPT ![current] = <<>>]
    /\ cycle' = IF cycle.lone THEN [cycle EXCEPT !.before = cache[current]] ELSE cycle
    /\ UNCHANGED <<current, updates, actions, uiVars, timerVars, stopClosed, crashed>>
    /\ UNCHANGED restVars

\* EC2Instances.Fetch, one NextPage call: an error returns at once, a page is
\* appended to the cache, and the loop ends after the last page.
FetchStepEC2(stage, c, ok) ==
    IF ~ok
    THEN [rows |-> c, done |-> TRUE, err |-> TRUE]
    ELSE [rows |-> c \o ParsePage(RemoteEC2[stage]),
          done |-> stage = Len(RemoteEC2), err |-> FALSE]

\* S3Buckets.Fetch: ListBuckets (stage 1), then one GetBucketLocation call per
\* bucket, whose failure only leaves the region empty.
FetchStepS3(stage, c, ok) ==
    IF stage = 1
    THEN IF ~ok
         THEN [rows |-> c, done |-> TRUE, err |-> TRUE]
         ELSE [rows |-> c, done |-> Len(RemoteS3) = 0, err |-> FALSE]
    ELSE [rows |-> Append(c, Entity(RemoteS3[stage - 1], IF ok THEN "ok" ELSE "")),
          done |-> stage - 1 = Len(RemoteS3), err |-> FALSE]

\* ECSClusters.Fetch: ListClusters (stage 1), then DescribeClusters (stage 2);
\* the clusters are appended only after the describe call.
FetchStepECS(stage, c, ok) ==
    IF ~ok
    THEN [rows |-> c, done |-> TRUE, err |-> TRUE]
    ELSE IF stage = 1
         THEN [rows |-> c, done |-> Len(RemoteECS) = 0, err |-> FALSE]
         ELSE [rows |-> c \o ParsePage(RemoteECS), done |-> TRUE, err |-> FALSE]

\* Resource.Fetch of kind k, one remote call further.
FetchStep(k, stage, c, ok) ==
    CASE k = "ec2" -> FetchStepEC2(stage, c, ok)
      [] k = "s3"  -> FetchStepS3(stage, c, ok)
      [] k = "ecs" -> FetchStepECS(stage, c, ok)

\* The update a fetch goroutine hands to QueueUpdateDraw.  The closure holds err
\* alone; res records (as history) which resource the goroutine fetched.
FetchUpdate(t, err) == [kind |-> "fetch", err |-> err, res |-> t.res]

\* One remote call of a running fetch answers (ok) or fails (~ok); when Fetch
\* returns, the goroutine queues its update and ends.
FetchCall(i, ok) ==
    /\ ~crashed
    /\ fetches[i].pc = "run"
    /\ LET t == fetches[i]
           r == FetchStep(t.res, t.stage, cache[t.res], ok)
       IN /\ cache' = [cache EXCEPT ![t.res] = r.rows]
          /\ IF r.done
             THEN /\ Len(updates) < MaxQueue
                  /\ updates' = Append(updates, FetchUpdate(t, r.err))
                  /\ fetches' = RemoveAt(fetches, i)
             ELSE /\ fetches' = [fetches EXCEPT ![i].stage = t.stage + 1]
                  /\ UNCHANGED updates
    /\ UNCHANGED <<current, actions, uiVars, timerVars, stopClosed, crashed,
                   cycle>>
    /\ UNCHANGED restVars

\* renderTable as it would be if its loop over the rows left the first one out.
renderedRows_skipsFirst ==
    IF Rows(current) = <<>> THEN <<>> ELSE Tail(Rows(current))

\* App.renderTable: the table shows the current resource's rows under its name.
renderedRows == Rows(current)

\* The closure of refreshResource as it would be if an error left the status
\* line as it is.
applyFetch_silentOnError(u) ==
    /\ IF u.err
       THEN UNCHANGED <<status, tableRows, tableTitle>>
       ELSE /\ tableRows' = renderedRows
            /\ tableTitle' = Name(current)
            /\ status' = Status("items", Name(current), Len(Rows(current)))
    /\ cycle' = NoCycle
    /\ UNCHANGED <<fetches, selRow, frontPage, confirm>>

\* The closure refreshResource queues, run by the event loop.
applyFetch(u) ==
    /\ IF u.err
       THEN /\ status' = Status("error", "", 0)
            /\ UNCHANGED <<tableRows, tableTitle>>
       ELSE /\ tableRows' = renderedRows
            /\ tableTitle' = Name(current)
            /\ status' = Status("items", Name(current), Len(Rows(current)))
    /\ cycle' = NoCycle
    /\ UNCHANGED <<fetches, selRow, frontPage, confirm>>

\* 'f' as it would be if the key were acted on whatever page is in front.
ForceRefresh_anyPage ==
    /\ Alive
    /\ current /= None
    /\ refreshResource(current)
    /\ UNCHANGED <<current, cache, updates, actions, tableTitle, selRow, frontPage,
                   confirm, timerVars, stopClosed, crashed>>
    /\ UNCHANGED restVars

\* 'f' on the main page: refresh the current resource, if there is one.
ForceRefresh ==
    /\ Alive
    /\ frontPage = "main"
    /\ current /= None
    /\ refreshResource(current)
    /\ UNCHANGED <<current, cache, updates, actions, tableTitle, selRow, frontPage,
                   confirm, timerVars, stopClosed, crashed>>
    /\ UNCHANGED restVars


\* ---------------------------------------------------------- the auto-refresh
\* refreshTicker.Stop() when there is a ticker: the ticker sends no more ticks
\* (a tick already in its channel stays there).
stoppedTickers ==
    IF refreshTicker /= Nil
    THEN [tickers EXCEPT ![refreshTicker].active = FALSE]
    ELSE tickers

\* startAutoRefresh as it would be if it left a ticker that is there alone
\* and made one only when there is none.
startAutoRefresh_onlyFirst(cur, auto) ==
    IF ~auto \/ cur = None \/ refreshTicker /= Nil
    THEN UNCHANGED <<tickers, refreshTicker, listeners>>
    ELSE /\ Len(tickers) < MaxTickers
         /\ tickers' = Append(tickers, [active |-> TRUE, pending |-> FALSE])
         /\ refreshTicker' = Len(tickers) + 1
         /\ listeners' = Append(listeners, [pc |-> "enter", ch |-> Nil])

\* App.startAutoRefresh with a.current = cur and a.autoRefresh = auto: the
\* existing ticker is stopped; unless disabled or without a resource, a new
\* ticker is made and a new listener goroutine started.
startAutoRefresh(cur, auto) ==
    IF ~auto \/ cur = None
    THEN /\ tickers' = stoppedTickers
         /\ UNCHANGED <<refreshTicker, listeners>>
    ELSE /\ Len(tickers) < MaxTickers
         /\ tickers' = Append(stoppedTickers, [active |-> TRUE, pending |-> FALSE])
         /\ refreshTicker' = Len(tickers) + 1
         /\ listeners' = Append(listeners, [pc |-> "enter", ch |-> Nil])

\* stopAutoRefresh as it would be without `a.refreshTicker = nil`.
stopAutoRefresh_keepsHandle ==
    /\ tickers' = stoppedTickers
    /\ UNCHANGED refreshTicker

\* App.stopAutoRefresh: the ticker, if any, is stopped and the handle dropped.
stopAutoRefresh ==
    /\ tickers' = stoppedTickers
    /\ refreshTicker' = Nil

\* App.updateStatusWithAutoRefresh: the item count of the current resource, or
\* the prefix when there is none.
autoRefreshStatus(prefix) ==
    IF current /= None
    THEN Status("items", Name(current), Len(Rows(current)))
    ELSE Status(prefix, "", 0)

\* 'a' on the main page: App.toggleAutoRefresh.
toggleAutoRefresh ==
    /\ Alive
    /\ frontPage = "main"
    /\ autoRefresh' = ~autoRefresh
    /\ IF ~autoRefresh
       THEN /\ startAutoRefresh(current, TRUE)
            /\ status' = autoRefreshStatus("auto-enabled")
       ELSE /\ stopAutoRefresh
            /\ UNCHANGED listeners
            /\ status' = autoRefreshStatus("auto-disabled")
    /\ UNCHANGED <<current, cache, fetches, updates, actions, tableRows, tableTitle,
                   selRow, frontPage, confirm, stopClosed, crashed,
                   cycle>>
    /\ UNCHANGED restVars

\* The ticker fires: a tick goes into its channel, which holds one tick.
Tick(k) ==
    /\ ~crashed
    /\ tickers[k].active
    /\ ~tickers[k].pending
    /\ tickers' = [tickers EXCEPT ![k].pending = TRUE]
    /\ UNCHANGED <<current, cache, fetches, updates, actions, uiVars, autoRefresh,
                   refreshTicker, listeners, stopClosed, crashed,
                   cycle>>
    /\ UNCHANGED restVars

\* The listener enters its select: it evaluates a.refreshTicker.C, without the
\* mutex.  With the handle nil that is a nil dereference and the process panics.
ListenerEnter(g) ==
    /\ ~crashed
    /\ listeners[g].pc = "enter"
    /\ IF refreshTicker = Nil
       THEN /\ crashed' = TRUE
            /\ UNCHANGED listeners
       ELSE /\ listeners' = [listeners EXCEPT ![g] = [pc |-> "blocked", ch |-> refreshTicker]]
            /\ UNCHANGED crashed
    /\ UNCHANGED <<current, cache, fetches, updates, actions, uiVars, autoRefresh,
                   refreshTicker, tickers, stopClosed,
                   cycle>>
    /\ UNCHANGED restVars

\* case <-a.refreshTicker.C: the listener takes the tick of the channel it waits on.
ListenerRecv(g) ==
    /\ ~crashed
    /\ listeners[g].pc = "blocked"
    /\ tickers[listeners[g].ch].pending
    /\ tickers' = [tickers EXCEPT ![listeners[g].ch].pending = FALSE]
    /\ listeners' = [listeners EXCEPT ![g].pc = "tick"]
    /\ UNCHANGED <<current, cache, fetches, updates, actions, uiVars, autoRefresh,
                   refreshTicker, stopClosed, crashed,
                   cycle>>
    /\ UNCHANGED restVars

\* case <-a.stopRefresh: the listener returns.  (a.ctx is context.Background():
\* its Done channel never delivers.)
ListenerStop(g) ==
    /\ ~crashed
    /\ listeners[g].pc = "blocked"
    /\ stopClosed
    /\ listeners' = [listeners EXCEPT ![g].pc = "done"]
    /\ UNCHANGED <<current, cache, fetches, updates, actions, uiVars, autoRefresh,
                   refreshTicker, tickers, stopClosed, crashed,
                   cycle>>
    /\ UNCHANGED restVars

\* The condition the listener tests after a tick.
tickCondition == autoRefresh /\ current /= None

\* if a.autoRefresh && a.current != nil, read in the listener goroutine.
ListenerCheck(g) ==
    /\ ~crashed
    /\ listeners[g].pc = "tick"
    /\ listeners' = [listeners EXCEPT ![g].pc = IF tickCondition THEN "refresh" ELSE "enter"]
    /\ UNCHANGED <<current, cache, fetches, updates, actions, uiVars, autoRefresh,
                   refreshTicker, tickers, stopClosed, crashed,
                   cycle>>
    /\ UNCHANGED restVars

\* a.refreshResource() called by the listener goroutine itself.
ListenerRefresh(g) ==
    /\ ~crashed
    /\ listeners[g].pc = "refresh"
    /\ refreshResource(current)
    /\ listeners' = [listeners EXCEPT ![g].pc = "enter"]
    /\ UNCHANGED <<current, cache, updates, actions, tableTitle, selRow, frontPage,
                   confirm, autoRefresh, refreshTicker, tickers, stopClosed, crashed>>
    /\ UNCHANGED restVars

\* --------------------------------------------------------------- selection
\* The not-found branch as it would be without its `return`: the refresh and
\* the timer restart of selectResource run on the resource that is current.
selectUnknown_fallsThrough(key) ==
    /\ refreshResource(current)
    /\ startAutoRefresh(current, autoRefresh)
    /\ UNCHANGED <<current, frontPage, autoRefresh>>

\* App.selectResource(key) when Registry.Get finds nothing: a status, no more.
selectUnknown(key) ==
    /\ status' = Status("unknown", key, 0)
    /\ UNCHANGED <<current, fetches, tableRows, frontPage, timerVars, cycle>>

\* App.selectResource(key) when Registry.Get finds the resource.
selectKnown(key) ==
    /\ current' = RegistryGet(key).res
    /\ frontPage' = "main"
    /\ refreshResource(RegistryGet(key).res)
    /\ startAutoRefresh(RegistryGet(key).res, autoRefresh)
    /\ UNCHANGED autoRefresh

\* App.selectResource(key).
selectResource(key) ==
    /\ IF RegistryGet(key).ok THEN selectKnown(key) ELSE selectUnknown(key)
    /\ UNCHANGED <<cache, updates, actions, tableTitle, selRow, confirm, stopClosed,
                   crashed>>
    /\ UNCHANGED restVars

\* '1' and '2' on the main page.
SelectShortcut(key) ==
    /\ Alive
    /\ frontPage = "main"
    /\ key \in {"ec2", "s3"}
    /\ selectResource(key)

\* ':' on the main page opens the menu; Escape closes it.
OpenMenu ==
    /\ Alive
    /\ frontPage = "main"
    /\ frontPage' = "menu"
    /\ UNCHANGED <<current, cache, fetches, updates, actions, status, tableRows,
                   tableTitle, selRow, confirm, timerVars, stopClosed, crashed,
                   cycle>>
    /\ UNCHANGED restVars

closeMenu ==
    /\ Alive
    /\ frontPage = "menu"
    /\ frontPage' = "main"
    /\ UNCHANGED <<current, cache, fetches, updates, actions, status, tableRows,
                   tableTitle, selRow, confirm, timerVars, stopClosed, crashed,
                   cycle>>
    /\ UNCHANGED restVars

\* An item of the menu list is chosen: the items are the registry's keys.
MenuSelect(key) ==
    /\ Alive
    /\ frontPage = "menu"
    /\ selectResource(key)

\* selectResource given a key that is not registered.
SelectUnregistered(key) ==
    /\ Alive
    /\ frontPage \in {"main", "menu"}
    /\ selectResource(key)

\* The user moves the highlight to a data row that is drawn.
MoveSelection(r) ==
    /\ Alive
    /\ frontPage = "main"
    /\ r \in 1..Len(tableRows)
    /\ r /= selRow
    /\ selRow' = r
    /\ UNCHANGED <<current, cache, fetches, updates, actions, status, tableRows,
                   tableTitle, frontPage, confirm, timerVars, stopClosed, crashed,
                   cycle>>
    /\ UNCHANGED restVars


\* ------------------------------------------------------------ quick actions
EC2Actions == {"stop", "start", "restart"}

\* row, _ := a.table.GetSelection(); if row <= 0: no data row is highlighted.
NoRowSelected(row) == row <= 0

\* The identifier check as it would be if it were left out.
NoIdentifier_never(id) == FALSE

\* if instanceID == "" (bucketName == ""): the row resolves to no identifier.
NoIdentifier(id) == id = ""

\* A handler that needs a selection, for the resource kind k it belongs to:
\* kind check, row check, identifier check, then the confirmation prompt
\* (handleEC2Action, handleS3Delete, handleS3Empty).
handleSelected(k, ckind, action) ==
    IF current /= k
    THEN /\ status' = Status("not-available", k, 0)
         /\ UNCHANGED <<frontPage, confirm>>
    ELSE IF NoRowSelected(selRow)
    THEN /\ status' = Status("select-first", k, 0)
         /\ UNCHANGED <<frontPage, confirm>>
    ELSE IF NoIdentifier(GetID(k, selRow - 1))
    THEN /\ status' = Status("no-id", k, 0)
         /\ UNCHANGED <<frontPage, confirm>>
    ELSE /\ confirm' = [kind |-> ckind, action |-> action, id |-> GetID(k, selRow - 1)]
         /\ frontPage' = "confirm"
         /\ UNCHANGED status

\* 's', 'S', 'R' on the main page: App.handleEC2Action(action).
handleEC2Action(action) ==
    /\ Alive
    /\ frontPage = "main"
    /\ handleSelected("ec2", "ec2", action)
    /\ UNCHANGED <<current, cache, fetches, updates, actions, tableRows, tableTitle,
                   selRow, timerVars, stopClosed, crashed,
                   cycle>>
    /\ UNCHANGED restVars

\* 'd' on the main page: App.handleS3Delete.
handleS3Delete ==
    /\ Alive
    /\ frontPage = "main"
    /\ handleSelected("s3", "s3delete", "delete")
    /\ UNCHANGED <<current, cache, fetches, updates, actions, tableRows, tableTitle,
                   selRow, timerVars, stopClosed, crashed,
                   cycle>>
    /\ UNCHANGED restVars

\* 'e' on the main page: App.handleS3Empty.
handleS3Empty ==
    /\ Alive
    /\ frontPage = "main"
    /\ handleSelected("s3", "s3empty", "empty")
    /\ UNCHANGED <<current, cache, fetches, updates, actions, tableRows, tableTitle,
                   selRow, timerVars, stopClosed, crashed,
                   cycle>>
    /\ UNCHANGED restVars

\* handleS3Create as it would be without the check of the kind.
handleS3Create_noKindCheck ==
    /\ Alive
    /\ frontPage = "main"
    /\ frontPage' = "s3create"
    /\ UNCHANGED <<current, cache, fetches, updates, actions, status, tableRows,
                   tableTitle, selRow, confirm, timerVars, stopClosed, crashed, cycle>>
    /\ UNCHANGED restVars

\* 'c' on the main page: App.handleS3Create asks for the bucket name when the
\* S3 buckets are shown.
handleS3Create ==
    /\ Alive
    /\ frontPage = "main"
    /\ IF current /= "s3"
       THEN /\ status' = Status("not-available", "s3", 0)
            /\ UNCHANGED frontPage
       ELSE /\ frontPage' = "s3create"
            /\ UNCHANGED status
    /\ UNCHANGED <<current, cache, fetches, updates, actions, tableRows, tableTitle,
                   selRow, confirm, timerVars, stopClosed, crashed, cycle>>
    /\ UNCHANGED restVars

\* The bucket names the user may type.
BucketNames == {"", "b-new"}

\* The done function of the bucket-name input: Enter on a name that is not
\* empty goes on to the confirmation prompt, anything else closes the input.
S3CreateInputDone(key, text) ==
    /\ Alive
    /\ frontPage = "s3create"
    /\ IF key = "Enter" /\ text /= ""
       THEN /\ frontPage' = "confirm"
            /\ confirm' = [kind |-> "s3create", action |-> "create", id |-> text]
       ELSE /\ frontPage' = "main"
            /\ UNCHANGED confirm
    /\ UNCHANGED <<current, cache, fetches, updates, actions, status, tableRows,
                   tableTitle, selRow, timerVars, stopClosed, crashed, cycle>>
    /\ UNCHANGED restVars

\* The test of the answer as it would be if any button counted.
Affirmative_anyButton(label) == label \in {"Yes", "No"}

\* if buttonLabel == "Yes"
Affirmative(label) == label = "Yes"

\* The kinds of quick action, which name the closures their goroutines queue.
ActionKinds == {"ec2", "s3create", "s3delete", "s3empty"}

\* execute... as it would be if it looked the highlighted row up again when the
\* answer is given, instead of using the identifier the prompt was made with.
execute_currentRow(c) ==
    IF c.kind /= "ec2" /\ current /= "s3"
    THEN /\ status' = Status("not-available", "s3", 0)
         /\ UNCHANGED actions
    ELSE /\ Len(actions) < MaxActions
         /\ status' = Status("in-progress", c.kind, 0)
         /\ actions' = Append(actions, [kind |-> c.kind, action |-> c.action,
                                        id |-> GetID(current, selRow - 1)])

\* execute...: the status says the action is under way and an action goroutine
\* starts.  The S3 handlers look a.current up again and give up when it is no
\* S3 resource.
execute(c) ==
    IF c.kind /= "ec2" /\ current /= "s3"
    THEN /\ status' = Status("not-available", "s3", 0)
         /\ UNCHANGED actions
    ELSE /\ Len(actions) < MaxActions
         /\ status' = Status("in-progress", c.kind, 0)
         /\ actions' = Append(actions, [kind |-> c.kind, action |-> c.action, id |-> c.id])

\* A button of the confirmation prompt is pressed: the prompt closes, and the
\* action is executed when the answer is affirmative.
ConfirmDone(label) ==
    /\ Alive
    /\ frontPage = "confirm"
    /\ frontPage' = "main"
    /\ confirm' = NoConfirm
    /\ IF Affirmative(label)
       THEN execute(confirm)
       ELSE UNCHANGED <<status, actions>>
    /\ UNCHANGED <<current, cache, fetches, updates, tableRows, tableTitle, selRow,
                   timerVars, stopClosed, crashed,
                   cycle>>
    /\ UNCHANGED restVars

\* Escape with the prompt in front: setupKeyBindings removes the page.
ConfirmEscape ==
    /\ Alive
    /\ frontPage = "confirm"
    /\ frontPage' = "main"
    /\ confirm' = NoConfirm
    /\ UNCHANGED <<current, cache, fetches, updates, actions, status, tableRows,
                   tableTitle, selRow, timerVars, stopClosed, crashed,
                   cycle>>
    /\ UNCHANGED restVars

\* The update an action goroutine hands to QueueUpdateDraw.
ActionUpdate(t, err) == [kind |-> t.kind, err |-> err, res |-> None]

\* The remote call of an action goroutine answers or fails; the goroutine
\* queues its update and ends.
ActionCall(i, ok) ==
    /\ ~crashed
    /\ i \in DOMAIN actions
    /\ Len(updates) < MaxQueue
    /\ updates' = Append(updates, ActionUpdate(actions[i], ~ok))
    /\ actions' = RemoveAt(actions, i)
    /\ UNCHANGED <<current, cache, fetches, uiVars, timerVars, stopClosed, crashed,
                   cycle>>
    /\ UNCHANGED restVars

\* time.Sleep in the closures the execute... goroutines queue, in seconds: two
\* in executeEC2Action, one in executeS3Create and executeS3Delete, none in
\* executeS3Empty.  The closure runs on the event loop, which handles no key
\* and runs no other update until the closure returns.
SleepSeconds(kind) ==
    CASE kind = "ec2" -> 2
      [] kind \in {"s3create", "s3delete"} -> 1
      [] OTHER -> 0

\* How long the event loop stays inside the update u: the closure of a failed
\* action returns before the sleep, the closures of a fetch and of a switch
\* have none.
BlockedFor(u) == IF u.kind \in ActionKinds /\ ~u.err THEN SleepSeconds(u.kind) ELSE 0

\* The closure an execute... goroutine queues, run by the event loop: the
\* outcome goes to the status line; after a success the EC2 and the S3 delete
\* closures (create too) sleep and refresh, the S3 empty closure does not refresh.
applyAction(u) ==
    /\ IF u.err
       THEN /\ status' = Status("action-failed", u.kind, 0)
            /\ UNCHANGED <<tableRows, fetches, cycle>>
       ELSE IF u.kind = "s3empty"
       THEN /\ status' = Status("action-done", u.kind, 0)
            /\ UNCHANGED <<tableRows, fetches, cycle>>
       ELSE refreshResource(current)
    /\ UNCHANGED <<tableTitle, selRow, frontPage, confirm>>

\* ------------------------------------------------- profile and region switch
SwitchKinds == {"region", "profile"}
Regions == {"us-east-1", "eu-west-1"}
Profiles == {"default", "dev"}

\* What the user may type into the input of a switch: a value, or nothing.
SwitchValues(what) == (IF what = "region" THEN Regions ELSE Profiles) \cup {""}

\* The order in which SetRegion and SetProfile replace the service handles.
HandleOrder == <<"ec2", "s3", "ecs">>

\* 'p' and 'r' on the main page: showProfileInput, showRegionInput.
showSwitchInput(what) ==
    /\ Alive
    /\ frontPage = "main"
    /\ frontPage' = what
    /\ UNCHANGED <<current, cache, fetches, updates, actions, status, tableRows,
                   tableTitle, selRow, confirm, timerVars, stopClosed, crashed, cycle>>
    /\ UNCHANGED restVars

\* Escape with the input of a switch in front: setupKeyBindings removes the page.
SwitchInputEscape ==
    /\ Alive
    /\ frontPage \in SwitchKinds
    /\ frontPage' = "main"
    /\ UNCHANGED <<current, cache, fetches, updates, actions, status, tableRows,
                   tableTitle, selRow, confirm, timerVars, stopClosed, crashed, cycle>>
    /\ UNCHANGED restVars

\* App.switchProfile, App.switchRegion: the status says the switch is under
\* way and a goroutine starts that will call SetProfile or SetRegion.
switch(what, value) ==
    /\ Len(reconfigs) < MaxReconfigs
    /\ status' = Status("switching", value, 0)
    /\ reconfigs' = Append(reconfigs, [what |-> what, value |-> value, pc |-> "load",
                                       cfg |-> Config("", ""), next |-> 1])

\* The done function of the input of a switch: Enter on a value that is not
\* empty starts the switch; the input closes whatever the key.
SwitchInputDone(key, text) ==
    /\ Alive
    /\ frontPage \in SwitchKinds
    /\ text \in SwitchValues(frontPage)
    /\ frontPage' = "main"
    /\ IF key = "Enter" /\ text /= ""
       THEN switch(frontPage, text)
       ELSE UNCHANGED <<status, reconfigs>>
    /\ UNCHANGED <<current, cache, fetches, updates, actions, tableRows, tableTitle,
                   selRow, confirm, timerVars, stopClosed, crashed, cycle>>
    /\ UNCHANGED <<client, header, registry, registered, probe>>

\* The update a switch goroutine hands to QueueUpdateDraw; res carries the
\* value the closure holds (the region or the profile asked for).
SwitchUpdate(t, err) == [kind |-> t.what, err |-> err, res |-> t.value]

\* SetRegion, SetProfile as they would be if the handles were replaced before
\* the error of LoadDefaultConfig is looked at.
ReconfigLoad_swapsFirst(i, ok) ==
    /\ ~crashed
    /\ reconfigs[i].pc = "load"
    /\ LET t == reconfigs[i]
           cfg == IF t.what = "region"
                  THEN Config(t.value, client.profile)
                  ELSE Config(client.region, t.value)
       IN IF ok
          THEN /\ reconfigs' = [reconfigs EXCEPT ![i].pc = "swap", ![i].cfg = cfg]
               /\ UNCHANGED <<updates, client>>
          ELSE /\ Len(updates) < MaxQueue
               /\ updates' = Append(updates, SwitchUpdate(t, TRUE))
               /\ reconfigs' = RemoveAt(reconfigs, i)
               /\ client' = [client EXCEPT !.handles = [s \in Services |-> Config("", "")]]
    /\ UNCHANGED <<current, cache, fetches, actions, uiVars, timerVars, stopClosed,
                   crashed, cycle, header, registry, registered, probe>>

\* SetRegion, SetProfile up to LoadDefaultConfig: the options are the value
\* asked for and the other setting as the client holds it now.  When loading
\* fails the call returns the error with the client as it was.
ReconfigLoad(i, ok) ==
    /\ ~crashed
    /\ reconfigs[i].pc = "load"
    /\ LET t == reconfigs[i]
           cfg == IF t.what = "region"
                  THEN Config(t.value, client.profile)
                  ELSE Config(client.region, t.value)
       IN IF ok
          THEN /\ reconfigs' = [reconfigs EXCEPT ![i].pc = "swap", ![i].cfg = cfg]
               /\ UNCHANGED updates
          ELSE /\ Len(updates) < MaxQueue
               /\ updates' = Append(updates, SwitchUpdate(t, TRUE))
               /\ reconfigs' = RemoveAt(reconfigs, i)
    /\ UNCHANGED <<current, cache, fetches, actions, uiVars, timerVars, stopClosed,
                   crashed, cycle, client, header, registry, registered, probe>>

\* One assignment c.<service>Client = <service>.NewFromConfig(cfg).
ReconfigSwap(i) ==
    /\ ~crashed
    /\ reconfigs[i].pc = "swap"
    /\ LET t == reconfigs[i]
       IN /\ client' = [client EXCEPT !.handles[HandleOrder[t.next]] = t.cfg]
          /\ reconfigs' = IF t.next = Len(HandleOrder)
                          THEN [reconfigs EXCEPT ![i].pc = "finish"]
                          ELSE [reconfigs EXCEPT ![i].next = t.next + 1]
    /\ UNCHANGED <<current, cache, fetches, updates, actions, uiVars, timerVars,
                   stopClosed, crashed, cycle, header, registry, registered, probe>>

\* The end of SetRegion, SetProfile as it would be without the assignment of
\* c.region (c.profile).
ReconfigFinish_keepsSetting(i) ==
    /\ ~crashed
    /\ reconfigs[i].pc = "finish"
    /\ Len(updates) < MaxQueue
    /\ updates' = Append(updates, SwitchUpdate(reconfigs[i], FALSE))
    /\ reconfigs' = RemoveAt(reconfigs, i)
    /\ UNCHANGED <<current, cache, fetches, actions, uiVars, timerVars, stopClosed,
                   crashed, cycle, client, header, registry, registered, probe>>

\* c.region = region (c.profile = profile); return nil: the goroutine queues
\* its update and ends.
ReconfigFinish(i) ==
    /\ ~crashed
    /\ reconfigs[i].pc = "finish"
    /\ Len(updates) < MaxQueue
    /\ LET t == reconfigs[i]
       IN /\ client' = IF t.what = "region"
                       THEN [client EXCEPT !.region = t.value]
                       ELSE [client EXCEPT !.profile = t.value]
          /\ updates' = Append(updates, SwitchUpdate(t, FALSE))
    /\ reconfigs' = RemoveAt(reconfigs, i)
    /\ UNCHANGED <<current, cache, fetches, actions, uiVars, timerVars, stopClosed,
                   crashed, cycle, header, registry, registered, probe>>

\* The closure switchProfile and switchRegion queue, run by the event loop: an
\* error goes to the status line; else the header is redrawn, the status says
\* switched, and the current resource, if any, is refreshed.
applyReconfig(u) ==
    /\ IF u.err
       THEN /\ status' = Status("switch-failed", u.kind, 0)
            /\ UNCHANGED <<header, tableRows, fetches, cycle>>
       ELSE /\ header' = HeaderOf(client)
            /\ IF current = None
               THEN /\ status' = Status("switched", u.res, 0)
                    /\ UNCHANGED <<tableRows, fetches, cycle>>
               ELSE refreshResource(current)
    /\ UNCHANGED <<tableTitle, selRow, frontPage, confirm>>

\* The event loop runs the update at the head of the queue.
ApplyUpdate ==
    /\ Alive
    /\ updates /= <<>>
    /\ updates' = Tail(updates)
    /\ CASE Head(updates).kind = "fetch" ->
                applyFetch(Head(updates)) /\ UNCHANGED header
         [] Head(updates).kind \in ActionKinds ->
                applyAction(Head(updates)) /\ UNCHANGED header
         [] Head(updates).kind \in SwitchKinds ->
                applyReconfig(Head(updates))
    /\ UNCHANGED <<current, cache, actions, timerVars, stopClosed, crashed>>
    /\ UNCHANGED <<client, reconfigs, registry, registered, probe>>

\* 'q' on the main page: the event loop stops, Run returns and its deferred
\* function closes stopRefresh and calls stopAutoRefresh.
Quit ==
    /\ Alive
    /\ frontPage = "main"
    /\ stopClosed' = TRUE
    /\ stopAutoRefresh
    /\ UNCHANGED <<current, cache, fetches, updates, actions, uiVars, autoRefresh,
                   listeners, crashed,
                   cycle>>
    /\ UNCHANGED restVars

\* ----------------------------------------------------------- resource kinds
\* The resource kinds DefaultRegistry registers, as pure functions of the row
\* cache: what Columns(), Rows() and GetID() of each kind give for a cache a
\* successful fetch has filled.  A string that is computed is a sequence of
\* tokens, and the empty string is the empty sequence.
AllKinds ==
    {"ec2", "s3", "lambda", "ecs", "eks",
     "rds", "acm", "billing", "cloudfront", "alb",
     "dynamodb", "secrets", "kms", "ecr", "cognito",
     "iam-users", "iam-roles", "iam-policies", "vpc", "subnets",
     "security-groups", "sqs", "sns", "api-gateway", "api-gateway-v2",
     "elasticache-clusters", "elasticache-groups", "route53"}

\* Resource.Columns() of each kind: the names of its columns.
Columns(k) ==
    CASE k = "ec2" ->
           <<"ID", "Name", "State", "Type", "Private IP", "Public IP", "AZ",
             "Launch Time">>
      [] k = "s3" ->
           <<"Name", "Creation Date", "Region">>
      [] k = "lambda" ->
           <<"Function Name", "Runtime", "Handler", "Memory (MB)", "Timeout (s)",
             "Last Modified">>
      [] k = "ecs" ->
           <<"Cluster Name", "Status", "Running Tasks", "Pending Tasks", "Services",
             "Instances">>
      [] k = "eks" ->
           <<"Name", "Status", "Version", "Platform Version", "Created At">>
      [] k = "rds" ->
           <<"DB Instance ID", "Class", "Engine", "Version", "Status", "Endpoint",
             "AZ", "Multi-AZ">>
      [] k = "acm" ->
           <<"Domain Name", "Status", "Type", "In Use", "Not Before", "Not After",
             "Renewal">>
      [] k = "billing" ->
           <<"Service", "Cost", "%", "Distribution">>
      [] k = "cloudfront" ->
           <<"ID", "Domain Name", "Status", "Enabled", "Origins", "Price Class",
             "Aliases">>
      [] k = "alb" ->
           <<"Name", "DNS Name", "Type", "Scheme", "State", "VPC ID", "Created">>
      [] k = "dynamodb" ->
           <<"Name", "Status", "Partition Key", "Sort Key", "Items", "Size",
             "Billing Mode">>
      [] k = "secrets" ->
           <<"Name", "Description", "Rotation", "Last Accessed", "Last Changed",
             "Created">>
      [] k = "kms" ->
           <<"Key ID", "Alias", "Description", "State", "Usage", "Spec">>
      [] k = "ecr" ->
           <<"Name", "URI", "Images", "Scan", "Tag Mutability", "Encryption">>
      [] k = "cognito" ->
           <<"ID", "Name", "Status", "MFA", "Users", "Created", "Modified">>
      [] k = "iam-users" ->
           <<"User Name", "User ID", "Created", "ARN">>
      [] k = "iam-roles" ->
           <<"Role Name", "Role ID", "Created", "ARN">>
      [] k = "iam-policies" ->
           <<"Policy Name", "Policy ID", "Attachments", "Created", "ARN">>
      [] k = "vpc" ->
           <<"VPC ID", "Name", "CIDR Block", "State", "Default">>
      [] k = "subnets" ->
           <<"Subnet ID", "Name", "VPC ID", "CIDR Block", "AZ", "State">>
      [] k = "security-groups" ->
           <<"Group ID", "Group Name", "VPC ID", "Description">>
      [] k = "sqs" ->
           <<"Queue Name", "Messages", "In Flight", "Retention (s)", "URL">>
      [] k = "sns" ->
           <<"Topic Name", "Confirmed", "Pending", "Deleted", "ARN">>
      [] k = "api-gateway" ->
           <<"API ID", "Name", "Version", "Created", "Description">>
      [] k = "api-gateway-v2" ->
           <<"API ID", "Name", "Protocol", "Created", "Description">>
      [] k = "elasticache-clusters" ->
           <<"Cluster ID", "Engine", "Version", "Node Type", "Nodes", "Status",
             "AZ">>
      [] k = "elasticache-groups" ->
           <<"Replication Group ID", "Description", "Status", "Node Type",
             "Node Groups", "Cluster Mode">>
      [] k = "route53" ->
           <<"Zone ID", "Name", "Type", "Records", "Comment">>

\* The cells Rows() makes of one cached entity of each kind, in column order:
\* a cell is named by the field it shows, or by the call that formats it.
RowCells(k) ==
    CASE k = "ec2" ->
           <<"InstanceID", "Name", "State", "Type", "PrivateIP", "PublicIP",
             "AvailabilityZone", "LaunchTime">>
      [] k = "s3" ->
           <<"Name", "CreationDate", "Region">>
      [] k = "lambda" ->
           <<"FunctionName", "Runtime", "Handler", "MemorySize", "Timeout",
             "LastModified">>
      [] k = "ecs" ->
           <<"ClusterName", "Status", "RunningTasksCount", "PendingTasksCount",
             "ActiveServicesCount", "RegisteredContainerInst">>
      [] k = "eks" ->
           <<"Name", "Status", "Version", "PlatformVersion", "CreatedAt">>
      [] k = "rds" ->
           <<"DBInstanceID", "DBInstanceClass", "Engine", "EngineVersion", "Status",
             "Endpoint", "AvailabilityZone", "MultiAZ">>
      [] k = "acm" ->
           <<"DomainName", "Status", "formatCertType(cert.Type)", "InUseBy",
             "NotBefore", "NotAfter", "RenewalEligibility">>
      [] k = "billing" ->
           <<"Service", "fmt.Sprintf(%.2f %s entry.Amount entry.Currency)",
             "fmt.Sprintf(%.1f%% entry.Percentage)",
             "b.renderBar(entry.Percentage)">>
      [] k = "cloudfront" ->
           <<"ID", "DomainName", "Status", "enabled",
             "fmt.Sprintf(%d dist.Origins)", "PriceClass", "Aliases">>
      [] k = "alb" ->
           <<"Name", "DNSName", "Type", "Scheme", "State", "VpcID", "CreatedTime">>
      [] k = "dynamodb" ->
           <<"Name", "Status", "PartitionKey", "SortKey",
             "fmt.Sprintf(%d table.ItemCount)", "formatSize(table.SizeBytes)",
             "BillingMode">>
      [] k = "secrets" ->
           <<"Name", "Description", "rotation", "LastAccessedDate",
             "LastChangedDate", "CreatedDate">>
      [] k = "kms" ->
           <<"KeyID", "Alias", "Description", "KeyState", "KeyUsage", "KeySpec">>
      [] k = "ecr" ->
           <<"Name", "URI", "fmt.Sprintf(%d repo.ImageCount)", "scan",
             "TagMutability", "EncryptionType">>
      [] k = "cognito" ->
           <<"ID", "Name", "Status", "MFAConfiguration",
             "fmt.Sprintf(%d pool.UserCount)", "CreationDate", "LastModifiedDate">>
      [] k = "iam-users" ->
           <<"UserName", "UserID", "CreateDate", "ARN">>
      [] k = "iam-roles" ->
           <<"RoleName", "RoleID", "CreateDate", "ARN">>
      [] k = "iam-policies" ->
           <<"PolicyName", "PolicyID", "AttachmentCount", "CreateDate", "ARN">>
      [] k = "vpc" ->
           <<"VpcID", "Name", "CIDRBlock", "State", "IsDefault">>
      [] k = "subnets" ->
           <<"SubnetID", "Name", "VpcID", "CIDRBlock", "AvailabilityZone", "State">>
      [] k = "security-groups" ->
           <<"GroupID", "GroupName", "VpcID", "Description">>
      [] k = "sqs" ->
           <<"Name", "ApproximateMessages", "ApproximateMessagesNotVisible",
             "MessageRetentionPeriod", "URL">>
      [] k = "sns" ->
           <<"Name", "SubscriptionsConfirmed", "SubscriptionsPending",
             "SubscriptionsDeleted", "ARN">>
      [] k = "api-gateway" ->
           <<"ID", "Name", "Version", "CreatedDate", "Description">>
      [] k = "api-gateway-v2" ->
           <<"ID", "Name", "ProtocolType", "CreatedDate", "Description">>
      [] k = "elasticache-clusters" ->
           <<"ClusterID", "Engine", "EngineVersion", "CacheNodeType",
             "NumCacheNodes", "Status", "PreferredAZ">>
      [] k = "elasticache-groups" ->
           <<"ReplicationGroupID", "Description", "Status", "NodeType",
             "NumNodeGroups", "ClusterEnabled">>
      [] k = "route53" ->
           <<"ID", "Name", "Type", "RecordSetCount", "Comment">>

\* The field of a cached entity that GetID of each kind returns.
IDField(k) ==
    CASE k = "ec2" -> "InstanceID"
      [] k = "s3" -> "Name"
      [] k = "lambda" -> "FunctionName"
      [] k = "ecs" -> "ClusterName"
      [] k = "eks" -> "Name"
      [] k = "rds" -> "DBInstanceID"
      [] k = "acm" -> "CertificateArn"
      [] k = "billing" -> "Service"
      [] k = "cloudfront" -> "ID"
      [] k = "alb" -> "ARN"
      [] k = "dynamodb" -> "Name"
      [] k = "secrets" -> "ARN"
      [] k = "kms" -> "KeyID"
      [] k = "ecr" -> "Name"
      [] k = "cognito" -> "ID"
      [] k = "iam-users" -> "UserName"
      [] k = "iam-roles" -> "RoleName"
      [] k = "iam-policies" -> "ARN"
      [] k = "vpc" -> "VpcID"
      [] k = "subnets" -> "SubnetID"
      [] k = "security-groups" -> "GroupID"
      [] k = "sqs" -> "Name"
      [] k = "sns" -> "Name"
      [] k = "api-gateway" -> "ID"
      [] k = "api-gateway-v2" -> "ID"
      [] k = "elasticache-clusters" -> "ClusterID"
      [] k = "elasticache-groups" -> "ReplicationGroupID"
      [] k = "route53" -> "ID"

\* Everything the session holds but the registry and the probe.
sessionVars ==
    <<current, cache, fetches, updates, actions, uiVars, timerVars, stopClosed,
      crashed, cycle, client, reconfigs, header>>

\* The row cache of a kind after a successful fetch that found n entities.
CachedEntities(k, n) == [i \in 1..n |-> [kind |-> k, no |-> i]]

\* A field of a cached entity, as the string it holds.
Field(e, name) == <<name, e.no>>

\* The []string literal Rows() makes of one cached entity.
EntityRow(k, e) == [c \in 1..Len(RowCells(k)) |-> Field(e, RowCells(k)[c])]

\* Billing.Rows: the row of the total.
BillingTotalRow ==
    << <<"TOTAL", "periodStart", "periodEnd">>, <<"totalAmount", "currency">>,
       <<"100%">>, <<"full bar">> >>

\* A separator row that is one cell short.
BillingSeparatorRow_threeCells == << <<"rule 40">>, <<"rule 15">>, <<"rule 8">> >>

\* Billing.Rows: the separator row.
BillingSeparatorRow ==
    << <<"rule 40">>, <<"rule 15">>, <<"rule 8">>, <<"rule 30">> >>

\* Resource.Rows() of each kind: one row per cached entity in cache order, and
\* for billing the two summary rows before them.
RowsOf(k, entities) ==
    LET entityRows == [i \in 1..Len(entities) |-> EntityRow(k, entities[i])]
    IN  IF k = "billing"
        THEN <<BillingTotalRow, BillingSeparatorRow>> \o entityRows
        ELSE entityRows

\* A Go slice indexed at i, counted from 0: the element, or the run-time
\* panic of an index out of range.
Index(slice, i) ==
    IF i >= 0 /\ i < Len(slice)
    THEN [panic |-> FALSE, val |-> slice[i + 1]]
    ELSE [panic |-> TRUE, val |-> <<>>]

\* A range check that forgets the lower end.
InRange_noLowerEnd(index, n) == index < n

\* The range check of GetID: index >= 0 && index < len(...).
InRange(index, n) == index >= 0 /\ index < n

\* strings.Split(ARN, "/") of a cached policy: never empty; the policy of a
\* deeper path has more parts, and the last part is the policy's name.
SplitARN(e) ==
    [j \in 1..(e.no + 1) |->
        IF j = 1 THEN <<"arn:aws:iam::aws:policy">>
        ELSE IF j = e.no + 1 THEN <<"PolicyName", e.no>>
        ELSE <<"path", j - 1>>]

\* What a GetID call gives: the string returned, or a panic.
Returned(id) == [panic |-> FALSE, id |-> id]
Panicked     == [panic |-> TRUE, id |-> <<>>]

\* GetID of the kinds that return a field of the entity at the index.
GetIDField(k, entities, index) ==
    IF InRange(index, Len(entities))
    THEN LET e == Index(entities, index)
         IN  IF e.panic THEN Panicked ELSE Returned(Field(e.val, IDField(k)))
    ELSE Returned(<<>>)

\* IAMPolicies.GetID: the last part of the ARN of the policy at the index.
GetIDPolicy(entities, index) ==
    IF InRange(index, Len(entities))
    THEN LET e == Index(entities, index)
         IN  IF e.panic
             THEN Panicked
             ELSE LET parts == SplitARN(e.val)
                      last  == Index(parts, Len(parts) - 1)
                  IN  IF Len(parts) > 0
                      THEN IF last.panic THEN Panicked ELSE Returned(last.val)
                      ELSE Returned(Field(e.val, "ARN"))
    ELSE Returned(<<>>)

\* Billing.GetID as it would be without the shift past the summary rows.
GetIDBilling_noOffset(entities, index) ==
    IF index >= 0 /\ index < Len(entities)
    THEN LET e == Index(entities, index)
         IN  IF e.panic THEN Panicked
             ELSE Returned(Field(e.val, "Service"))
    ELSE Returned(<<>>)

\* Billing.GetID: the two summary rows have no identifier, and the rows after
\* them are the entries, two places on.
GetIDBilling(entities, index) ==
    IF index < 2
    THEN Returned(<<>>)
    ELSE LET actualIndex == index - 2
         IN  IF actualIndex >= 0 /\ actualIndex < Len(entities)
             THEN LET e == Index(entities, actualIndex)
                  IN  IF e.panic THEN Panicked
                      ELSE Returned(Field(e.val, "Service"))
             ELSE Returned(<<>>)

\* Resource.GetID(index) of each kind, for a given row cache.
GetIDOf(k, entities, index) ==
    CASE k = "billing"      -> GetIDBilling(entities, index)
      [] k = "iam-policies" -> GetIDPolicy(entities, index)
      [] OTHER              -> GetIDField(k, entities, index)

\* The indices a caller may pass for a cache of n entities: some below 0, the
\* rows, and some past the last row.
Indices(n) == (0 - 2) .. (n + 4)

\* Rows() is called on a resource whose last fetch succeeded with n entities.
CallRows(k, n) ==
    /\ probe' = [op |-> "Rows", kind |-> k, entities |-> CachedEntities(k, n),
                 rows |-> RowsOf(k, CachedEntities(k, n))]
    /\ UNCHANGED <<sessionVars, registry, registered>>

\* GetID(index) is called on a resource whose last fetch succeeded with n
\* entities.
CallGetID(k, n, index) ==
    /\ probe' = [op |-> "GetID", kind |-> k, entities |-> CachedEntities(k, n),
                 index |-> index,
                 result |-> GetIDOf(k, CachedEntities(k, n), index)]
    /\ UNCHANGED <<sessionVars, registry, registered>>

\* ------------------------------------------------------ fetch of every kind
\* Resource.Fetch of each kind as a function of what the remote side holds and
\* of which calls it fails.  The remote side answers a list call page by page;
\* an item is named by its number, in the order the remote side lists them.
\* The kinds whose Fetch makes one list call and reads the one answer; the
\* others read page after page, with a paginator (or, HttpAPIs, with the next
\* token) until there is no more.
ListsOnce == {"s3", "billing", "vpc", "subnets", "security-groups", "ecs"}

\* The kinds whose list call is known to answer in pages: those read page
\* after page, and ECS, whose ListClusters answers with a next token too.
PagedKinds == (AllKinds \ ListsOnce) \cup {"ecs"}

\* What Fetch does with an item when the detail call made for it fails: the
\* item is appended with the detail fields empty ("keep"), the item is left
\* out ("drop"), Fetch returns the error ("fail"); "none" when Fetch makes no
\* detail call.
DetailPolicy(k) ==
    CASE k \in {"s3", "sqs", "sns", "ecr", "cognito"} -> "keep"
      [] k \in {"dynamodb", "kms", "eks", "acm"}      -> "drop"
      [] k = "ecs"                                    -> "fail"
      [] OTHER                                        -> "none"

\* An entity Fetch appends, made of item number `item`; detail is "ok" when
\* the fields of the detail call are filled and "" when they are empty.
FetchedEntity(k, item, detail) == [kind |-> k, no |-> item, detail |-> detail]

\* A Fetch that begins with the cache as it is.
ResetCache_keeps(old) == old

\* The first statement of every Fetch: the cache is a new, empty slice.
ResetCache(old) == <<>>

\* What the remote side holds when it has n items: pages of one item, and one
\* empty page when it has none (the first list call is always answered).
RemotePages(n) == IF n = 0 THEN << <<>> >> ELSE [p \in 1..n |-> <<p>>]

\* All the items of some pages, in order.
RECURSIVE Flatten(_)
Flatten(pages) == IF pages = <<>> THEN <<>> ELSE Head(pages) \o Flatten(Tail(pages))

\* The loop over the items of one answer: one detail call per item where the
\* kind makes one, then the append.  Billing leaves out a group whose amount
\* is negligible.
RECURSIVE ReadItems(_, _, _, _, _)
ReadItems(k, items, c, failDetail, negligible) ==
    IF items = <<>>
    THEN c
    ELSE LET item == Head(items)
             failed == DetailPolicy(k) /= "none" /\ item = failDetail
         IN  IF (k = "billing" /\ item = negligible)
                \/ (failed /\ DetailPolicy(k) = "drop")
             THEN ReadItems(k, Tail(items), c, failDetail, negligible)
             ELSE ReadItems(k, Tail(items),
                            Append(c, FetchedEntity(k, item, IF failed THEN "" ELSE "ok")),
                            failDetail, negligible)

\* The loop over the pages from page p on: the list call of page failAt
\* fails and Fetch returns the error; a kind that lists once stops after the
\* first answer.
RECURSIVE ReadPages(_, _, _, _, _, _, _)
ReadPages(k, pages, p, c, failAt, failDetail, negligible) ==
    IF p > Len(pages)
    THEN [err |-> FALSE, cache |-> c]
    ELSE IF p = failAt
    THEN [err |-> TRUE, cache |-> c]
    ELSE LET read == ReadItems(k, pages[p], c, failDetail, negligible)
         IN  IF k \in ListsOnce
             THEN [err |-> FALSE, cache |-> read]
             ELSE ReadPages(k, pages, p + 1, read, failAt, failDetail, negligible)

\* EKSClusters.Fetch: the names of all pages are collected first, then one
\* DescribeCluster call is made per name.
FetchEKS(c, pages, failAt, failDetail) ==
    IF failAt \in DOMAIN pages
    THEN [err |-> TRUE, cache |-> c]
    ELSE [err |-> FALSE, cache |-> ReadItems("eks", Flatten(pages), c, failDetail, 0)]

\* ECSClusters.Fetch: one ListClusters call, nothing more when it names no
\* cluster, else one DescribeClusters call for all the clusters it names.
FetchECS(c, pages, failAt, failDetail) ==
    IF failAt = 1
    THEN [err |-> TRUE, cache |-> c]
    ELSE IF pages[1] = <<>>
    THEN [err |-> FALSE, cache |-> c]
    ELSE IF \E i \in DOMAIN pages[1] : pages[1][i] = failDetail
    THEN [err |-> TRUE, cache |-> c]
    ELSE [err |-> FALSE, cache |-> ReadItems("ecs", pages[1], c, 0, 0)]

\* Resource.Fetch of kind k on a resource whose cache is old.
FetchOf(k, old, pages, failAt, failDetail, negligible) ==
    CASE k = "eks" -> FetchEKS(ResetCache(old), pages, failAt, failDetail)
      [] k = "ecs" -> FetchECS(ResetCache(old), pages, failAt, failDetail)
      [] OTHER     -> ReadPages(k, pages, 1, ResetCache(old), failAt, failDetail,
                                negligible)

\* The cache of the resource of kind k: what its last Fetch left, or the empty
\* slice its constructor made.
CacheBefore(k) ==
    IF probe.op = "Fetch" /\ probe.kind = k THEN probe.result.cache ELSE <<>>

\* Fetch is called on the resource of kind k while the remote side holds n
\* items; failAt and failDetail name the list call and the item's detail call
\* that fail (0: none), negligible the billing group the amount of which is
\* negligible (0: none).
CallFetch(k, n, failAt, failDetail, negligible) ==
    /\ probe' = [op |-> "Fetch", kind |-> k, pages |-> RemotePages(n),
                 failAt |-> failAt, failDetail |-> failDetail,
                 negligible |-> negligible,
                 result |-> FetchOf(k, CacheBefore(k), RemotePages(n), failAt,
                                    failDetail, negligible)]
    /\ UNCHANGED <<sessionVars, registry, registered>>

\* ------------------------------------------------------------- the registry
\* Registry: a Go map from key to resource behind Register, Get and List.
\* make(map[string]Resource): the map with no entry.
EmptyMap == [k \in {} |-> None]

\* An assignment that leaves an entry already there as it is.
MapPut_keepsFirst(m, key, resource) ==
    [k \in DOMAIN m \cup {key} |-> IF k \in DOMAIN m THEN m[k] ELSE resource]

\* m[key] = resource
MapPut(m, key, resource) ==
    [k \in DOMAIN m \cup {key} |-> IF k = key THEN resource ELSE m[k]]

\* res, ok := m[key]: the zero value and false when the key is not there.
MapGet(m, key) ==
    [res |-> IF key \in DOMAIN m THEN m[key] ELSE None, ok |-> key \in DOMAIN m]

\* for k := range m: every key once, in an order the run time picks.
MapRange(m) ==
    {order \in [1..Cardinality(DOMAIN m) -> DOMAIN m] :
        \A i, j \in DOMAIN order : i # j => order[i] # order[j]}

\* The keys Register is called with, and the resources registered under them.
RegisterKeys == {"ec2", "s3"}
Resources    == {"ec2", "s3"}

\* NewRegistry: a registry with no entry, and no Register call made on it.
NewRegistry ==
    /\ registry' = EmptyMap
    /\ registered' = <<>>
    /\ probe' = [op |-> "NewRegistry"]
    /\ UNCHANGED sessionVars

\* Registry.Register
Register(key, resource) ==
    /\ Len(registered) < MaxRegisters
    /\ registry' = MapPut(registry, key, resource)
    /\ registered' = Append(registered, [key |-> key, res |-> resource])
    /\ probe' = [op |-> "Register", key |-> key, res |-> resource]
    /\ UNCHANGED sessionVars

\* Registry.Get
Get(key) ==
    /\ probe' = [op |-> "Get", key |-> key, result |-> MapGet(registry, key)]
    /\ UNCHANGED <<sessionVars, registry, registered>>

\* Registry.List
List ==
    /\ \E keys \in MapRange(registry) : probe' = [op |-> "List", keys |-> keys]
    /\ UNCHANGED <<sessionVars, registry, registered>>

\* ----------------------------------------------------------------- the menu
\* A key and a filter are strings of one-byte characters.

\* A populateMenuList that compares the key and the filter as they are.
populateMenuList_caseSensitive(resourceKeys, filter) ==
    LET Contains(s, sub) ==
            \E k \in 0..(Len(s) - Len(sub)) : SubSeq(s, k + 1, k + Len(sub)) = sub
    IN  SelectSeq(resourceKeys, LAMBDA key : filter = <<>> \/ Contains(key, filter))

\* setupResourceMenu: a.resourceKeys is registry.List() after sort.Strings,
\* which orders strings byte by byte, a proper prefix first.
setupResourceMenu(keys) ==
    LET Byte(ch) == CASE ch = "2" -> 50 [] ch = "3" -> 51 [] ch = "c" -> 99
                      [] ch = "e" -> 101 [] ch = "s" -> 115
        RECURSIVE Less(_, _)
        Less(a, b) ==
            IF b = <<>> THEN FALSE
            ELSE IF a = <<>> THEN TRUE
            ELSE IF Head(a) # Head(b) THEN Byte(Head(a)) < Byte(Head(b))
            ELSE Less(Tail(a), Tail(b))
        RECURSIVE Insert(_, _)
        Insert(sorted, key) ==
            IF sorted = <<>> THEN <<key>>
            ELSE IF Less(key, Head(sorted)) THEN <<key>> \o sorted
            ELSE <<Head(sorted)>> \o Insert(Tail(sorted), key)
        RECURSIVE Sort(_)
        Sort(rest) ==
            IF rest = <<>> THEN <<>>
            ELSE Insert(Sort(SubSeq(rest, 1, Len(rest) - 1)), rest[Len(rest)])
    IN  Sort(keys)

\* populateMenuList: the list cleared, then an item for every key of
\* a.resourceKeys, in their order, that the filter is empty or that holds the
\* lowered filter once lowered itself.
populateMenuList(resourceKeys, filter) ==
    LET ToLower(s) == [i \in DOMAIN s |->
                          CASE s[i] = "E" -> "e" [] s[i] = "C" -> "c"
                            [] s[i] = "S" -> "s" [] OTHER -> s[i]]
        Contains(s, sub) ==
            \E k \in 0..(Len(s) - Len(sub)) : SubSeq(s, k + 1, k + Len(sub)) = sub
        lowered == ToLower(filter)
    IN  SelectSeq(resourceKeys,
                  LAMBDA key : lowered = <<>> \/ Contains(ToLower(key), lowered))

\* ------------------------------------------------------- emptying a bucket
\* S3Buckets.EmptyBucket as a function of what the listings of the bucket
\* answer and of which remote call fails.  An identifier is a key with a
\* version id; the identifier of a plain object has none.
maxBatchSize == 1000

\* The pages of one listing: page p holds sizes[p] identifiers, the keys are
\* numbered through the pages, and every page but the last says it is
\* truncated.
BucketListing(sizes, versionId) ==
    [p \in 1..Len(sizes) |->
        LET before == Len(Flatten([q \in 1..(p - 1) |-> [j \in 1..sizes[q] |-> j]]))
        IN  [ids |-> [i \in 1..sizes[p] |-> [key |-> before + i,
                                             versionId |-> versionId]],
             truncated |-> p < Len(sizes)]]

\* A deleteBatch that sends every identifier in one call.
deleteBatch_oneCall(calls, objects, i, failAt) ==
    LET made == Append(calls, [op |-> "DeleteObjects", ids |-> objects])
    IN  [calls |-> made, err |-> Len(made) = failAt]

\* deleteBatch: the loop from offset i on.  calls are the remote calls made so
\* far, and the call number failAt fails.
RECURSIVE deleteBatch(_, _, _, _)
deleteBatch(calls, objects, i, failAt) ==
    IF i >= Len(objects)
    THEN [calls |-> calls, err |-> FALSE]
    ELSE LET end   == IF i + maxBatchSize > Len(objects)
                      THEN Len(objects) ELSE i + maxBatchSize
             batch == SubSeq(objects, i + 1, end)
             made  == Append(calls, [op |-> "DeleteObjects", ids |-> batch])
         IN  IF Len(made) = failAt
             THEN [calls |-> made, err |-> TRUE]
             ELSE deleteBatch(made, objects, i + maxBatchSize, failAt)

\* EmptyBucket: deleteAllVersions, then deleteAllObjects unless the first
\* failed.  versions and markers are the Versions and DeleteMarkers of the
\* answers to ListObjectVersions, objects the Contents of the answers to
\* ListObjectsV2; the markers and the token of a list call are the page p it
\* asks for.
EmptyBucket(versions, markers, objects, failAt) ==
    LET RECURSIVE deleteAllVersions(_, _)
        deleteAllVersions(calls, p) ==
            LET listed == Append(calls, [op |-> "ListObjectVersions", ids |-> <<>>])
                objectsToDelete == versions[p].ids \o markers[p].ids
                deleted == IF Len(objectsToDelete) > 0
                           THEN deleteBatch(listed, objectsToDelete, 0, failAt)
                           ELSE [calls |-> listed, err |-> FALSE]
            IN  IF Len(listed) = failAt THEN [calls |-> listed, err |-> TRUE]
                ELSE IF deleted.err THEN deleted
                ELSE IF ~versions[p].truncated THEN deleted
                ELSE deleteAllVersions(deleted.calls, p + 1)
        RECURSIVE deleteAllObjects(_, _)
        deleteAllObjects(calls, p) ==
            LET listed == Append(calls, [op |-> "ListObjectsV2", ids |-> <<>>])
                objectsToDelete == objects[p].ids
                deleted == deleteBatch(listed, objectsToDelete, 0, failAt)
            IN  IF Len(listed) = failAt THEN [calls |-> listed, err |-> TRUE]
                ELSE IF Len(objects[p].ids) = 0 THEN [calls |-> listed, err |-> FALSE]
                ELSE IF deleted.err THEN deleted
                ELSE IF ~objects[p].truncated THEN deleted
                ELSE deleteAllObjects(deleted.calls, p + 1)
        first == deleteAllVersions(<<>>, 1)
    IN  IF first.err THEN first ELSE deleteAllObjects(first.calls, 1)

\* ------------------------------------------------------------ specification
\* The user selects a resource: by shortcut, through the menu, or by a key that
\* is not registered.
Selecting ==
    \/ \E key \in {"ec2", "s3"} : SelectShortcut(key)
    \/ OpenMenu
    \/ closeMenu
    \/ \E key \in RegistryKeys : MenuSelect(key)
    \/ \E key \in UnknownKeys : SelectUnregistered(key)

\* The fetch goroutines run, and the remote side answers or fails.
Fetching ==
    \/ \E i \in 1..Len(fetches) : FetchStart(i)
    \/ \E i \in 1..Len(fetches), ok \in BOOLEAN : FetchCall(i, ok)

\* The fetch goroutines run against a remote side that fails every call.
FetchingRemoteDown ==
    \/ \E i \in 1..Len(fetches) : FetchStart(i)
    \/ \E i \in 1..Len(fetches) : FetchCall(i, FALSE)

\* The tickers fire and the listener goroutines run.
Listening ==
    \/ \E k \in 1..Len(tickers) : Tick(k)
    \/ \E g \in 1..Len(listeners) : ListenerEnter(g)
    \/ \E g \in 1..Len(listeners) : ListenerRecv(g)
    \/ \E g \in 1..Len(listeners) : ListenerStop(g)
    \/ \E g \in 1..Len(listeners) : ListenerCheck(g)
    \/ \E g \in 1..Len(listeners) : ListenerRefresh(g)

\* The quick actions: key, prompt, answer, and the action goroutines.
QuickActing ==
    \/ \E r \in 1..Len(tableRows) : MoveSelection(r)
    \/ \E action \in EC2Actions : handleEC2Action(action)
    \/ handleS3Create
    \/ \E key \in {"Enter", "Escape"}, text \in BucketNames : S3CreateInputDone(key, text)
    \/ handleS3Delete
    \/ handleS3Empty
    \/ \E label \in {"Yes", "No"} : ConfirmDone(label)
    \/ ConfirmEscape
    \/ \E i \in 1..Len(actions), ok \in BOOLEAN : ActionCall(i, ok)

\* The profile and region switches: key, input, and the switch goroutines.
Reconfiguring ==
    \/ \E what \in SwitchKinds : showSwitchInput(what)
    \/ SwitchInputEscape
    \/ \E key \in {"Enter", "Tab"}, text \in Regions \cup Profiles \cup {""} :
           SwitchInputDone(key, text)
    \/ \E i \in 1..Len(reconfigs), ok \in BOOLEAN : ReconfigLoad(i, ok)
    \/ \E i \in 1..Len(reconfigs) : ReconfigSwap(i)
    \/ \E i \in 1..Len(reconfigs) : ReconfigFinish(i)

\* Everything the session can do.
Next ==
    \/ Reconfiguring
    \/ Selecting
    \/ ForceRefresh
    \/ toggleAutoRefresh
    \/ Fetching
    \/ ApplyUpdate
    \/ Listening
    \/ QuickActing
    \/ Quit

Spec == Init /\ [][Next]_vars

\* Nothing is outstanding: no fetch goroutine, no queued update.
Idle == fetches = <<>> /\ updates = <<>>

\* Nothing is outstanding, and no action goroutine either.
Quiet == Idle /\ actions = <<>>

\* No switch is outstanding: no switch goroutine, no queued update of one.
NoSwitch ==
    reconfigs = <<>> /\ \A j \in DOMAIN updates : updates[j].kind \notin SwitchKinds

\* A user who waits for each refresh to end before the next key: every refresh
\* runs alone, on every resource kind, against a remote side that may fail any call.
NextSequential ==
    \/ Idle /\ Selecting
    \/ Idle /\ ForceRefresh
    \/ Idle /\ toggleAutoRefresh
    \/ Fetching
    \/ ApplyUpdate

SpecSequential == Init /\ [][NextSequential]_vars

\* Refreshes that overlap: the shortcuts and 'f' at any time, no tick.
NextRefresh ==
    \/ \E key \in {"ec2", "s3"} : SelectShortcut(key)
    \/ ForceRefresh
    \/ Fetching
    \/ ApplyUpdate

SpecRefresh == Init /\ [][NextRefresh]_vars

\* The auto-refresh at work: the tickers fire and the listeners run at any
\* time, the user selects and toggles when nothing is outstanding and quits at
\* any time, and the remote side is down.
NextTimer ==
    \/ Idle /\ \E key \in {"ec2", "s3"} : SelectShortcut(key)
    \/ Idle /\ \E key \in UnknownKeys : SelectUnregistered(key)
    \/ Idle /\ toggleAutoRefresh
    \/ FetchingRemoteDown
    \/ ApplyUpdate
    \/ Listening
    \/ Quit

SpecTimer == Init /\ [][NextTimer]_vars

\* The quick actions at work: their keys and the answers No and Escape at any
\* time, also while a fetch is running; the user selects, by shortcut or
\* through the menu, refreshes and answers Yes when nothing is outstanding.
NextAction ==
    \/ Quiet /\ \E key \in {"ec2", "s3"} : SelectShortcut(key)
    \/ OpenMenu
    \/ closeMenu
    \/ Quiet /\ \E key \in {"ec2", "s3"} : MenuSelect(key)
    \/ Quiet /\ ForceRefresh
    \/ Fetching
    \/ ApplyUpdate
    \/ \E r \in 1..Len(tableRows) : MoveSelection(r)
    \/ \E action \in EC2Actions : handleEC2Action(action)
    \/ handleS3Create
    \/ \E key \in {"Enter", "Escape"}, text \in BucketNames : S3CreateInputDone(key, text)
    \/ handleS3Delete
    \/ handleS3Empty
    \/ Quiet /\ ConfirmDone("Yes")
    \/ ConfirmDone("No")
    \/ ConfirmEscape
    \/ \E i \in 1..Len(actions), ok \in BOOLEAN : ActionCall(i, ok)

SpecAction == Init /\ [][NextAction]_vars

\* A user who goes from one resource to another and highlights rows only in a
\* table that is up to date: every refresh is the refresh of a select, and no
\* row is picked between a select and the render that follows it.
NextPick ==
    \/ Idle /\ \E key \in {"ec2", "s3"} : SelectShortcut(key)
    \/ Fetching
    \/ ApplyUpdate
    \/ Idle /\ \E r \in 1..Len(tableRows) : MoveSelection(r)
    \/ \E action \in EC2Actions : handleEC2Action(action)
    \/ handleS3Delete
    \/ handleS3Empty
    \/ ConfirmEscape

SpecPick == Init /\ [][NextPick]_vars

\* The switches at work, one thing at a time: a user who selects a resource
\* and starts a switch only when nothing is outstanding; the remote side may
\* fail any call of a fetch, and loading the configuration may fail.
NextReconfigure ==
    \/ Idle /\ NoSwitch /\ (\E key \in {"ec2", "s3"} : SelectShortcut(key))
    \/ \E what \in SwitchKinds : showSwitchInput(what)
    \/ SwitchInputEscape
    \/ Idle /\ NoSwitch /\ \E key \in {"Enter", "Tab"}, text \in Regions \cup Profiles \cup {""} :
                               SwitchInputDone(key, text)
    \/ \E i \in 1..Len(reconfigs), ok \in BOOLEAN : ReconfigLoad(i, ok)
    \/ \E i \in 1..Len(reconfigs) : ReconfigSwap(i)
    \/ \E i \in 1..Len(reconfigs) : ReconfigFinish(i)
    \/ Fetching
    \/ ApplyUpdate

SpecReconfigure == Init /\ [][NextReconfigure]_vars

\* The region switch at work while other things run: a switch to the other
\* region is started at any time, also while a fetch or another switch is
\* running; the resource is selected when nothing is outstanding, and the
\* remote side is down.
NextOverlap ==
    \/ Idle /\ NoSwitch /\ SelectShortcut("ec2")
    \/ \E what \in SwitchKinds : showSwitchInput(what)
    \/ SwitchInputEscape
    \/ SwitchInputDone("Enter", "eu-west-1")
    \/ \E i \in 1..Len(reconfigs), ok \in BOOLEAN : ReconfigLoad(i, ok)
    \/ \E i \in 1..Len(reconfigs) : ReconfigSwap(i)
    \/ \E i \in 1..Len(reconfigs) : ReconfigFinish(i)
    \/ FetchingRemoteDown
    \/ ApplyUpdate

SpecOverlap == Init /\ [][NextOverlap]_vars

\* A switch of the region and a switch of the profile that overlap: each is
\* started at any time, also while the other is running, with no resource
\* selected; loading the configuration may fail.
NextSwitchBoth ==
    \/ \E what \in SwitchKinds : showSwitchInput(what)
    \/ SwitchInputEscape
    \/ SwitchInputDone("Enter", "eu-west-1")
    \/ SwitchInputDone("Enter", "dev")
    \/ \E i \in 1..Len(reconfigs), ok \in BOOLEAN : ReconfigLoad(i, ok)
    \/ \E i \in 1..Len(reconfigs) : ReconfigSwap(i)
    \/ \E i \in 1..Len(reconfigs) : ReconfigFinish(i)
    \/ ApplyUpdate

SpecSwitchBoth == Init /\ [][NextSwitchBoth]_vars

\* Quick actions while refreshes overlap: the EC2 instances are selected and
\* refreshed at any time, the user moves the highlight over the rows drawn and
\* asks for a stop, and closes the prompt.
NextAlign ==
    \/ SelectShortcut("ec2")
    \/ ForceRefresh
    \/ Fetching
    \/ ApplyUpdate
    \/ \E r \in 1..Len(tableRows) : MoveSelection(r)
    \/ handleEC2Action("stop")
    \/ ConfirmEscape

SpecAlign == Init /\ [][NextAlign]_vars

\* The end of the session: the user selects and refreshes when nothing is
\* outstanding and quits at any time, also while a fetch is running; the
\* remote side may answer or fail any call, before the quit and after it.
NextShutdown ==
    \/ Idle /\ \E key \in {"ec2", "s3"} : SelectShortcut(key)
    \/ Idle /\ ForceRefresh
    \/ Fetching
    \/ ApplyUpdate
    \/ Quit

SpecShutdown == Init /\ [][NextShutdown]_vars

\* A user in a hurry: the EC2 instances are selected first and the S3 buckets
\* after them, at any time, also before the fetch goroutine of the first
\* select has run; 'f' is pressed when nothing is outstanding.  Of two fetches
\* in flight the first was asked for with the EC2 instances current and the
\* second with the S3 buckets.
NextSwitchEarly ==
    \/ current = None /\ SelectShortcut("ec2")
    \/ current = "ec2" /\ SelectShortcut("s3")
    \/ Idle /\ ForceRefresh
    \/ Fetching
    \/ ApplyUpdate

SpecSwitchEarly == Init /\ [][NextSwitchEarly]_vars

\* A session that goes on for ever: the user selects, and asks for a quick
\* action of the resource shown with a row highlighted and confirms it,
\* while a fetch or an action is still running, as long as fewer
\* than MaxFetches goroutines and queued updates are outstanding, so that no
\* goroutine ever waits for room in the model's queues.  Every goroutine that
\* can take a step takes one in the end (the remote call returns), and the
\* event loop runs every update queued.
NextLive ==
    \/ Len(fetches) + Len(updates) + Len(actions) < MaxFetches
          /\ \E key \in {"ec2", "s3"} : SelectShortcut(key)
    \/ Fetching
    \/ ApplyUpdate
    \/ MoveSelection(1)
    \/ current = "ec2" /\ selRow > 0 /\ handleEC2Action("stop")
    \/ current = "s3" /\ selRow > 0 /\ handleS3Empty
    \/ Len(fetches) + Len(updates) + Len(actions) < MaxFetches /\ ConfirmDone("Yes")
    \/ \E i \in 1..Len(actions), ok \in BOOLEAN : ActionCall(i, ok)

SpecLive ==
    /\ Init
    /\ [][NextLive]_vars
    /\ WF_vars(Fetching)
    /\ WF_vars(\E i \in 1..Len(actions), ok \in BOOLEAN : ActionCall(i, ok))
    /\ WF_vars(ApplyUpdate)

\* The resource kinds alone: Rows() and GetID() are called on every kind, for
\* every size of row cache a successful fetch leaves and every index.
NextKinds ==
    \/ \E k \in AllKinds, n \in 0..MaxEntities : CallRows(k, n)
    \/ \E k \in AllKinds, n \in 0..MaxEntities :
           \E index \in Indices(n) : CallGetID(k, n, index)

SpecKinds == Init /\ [][NextKinds]_vars

\* A registry alone: it is made, resources are registered under keys in any
\* order and again, and it is asked for keys and for its list.
NextRegistry ==
    \/ NewRegistry
    \/ \E key \in RegisterKeys, resource \in Resources : Register(key, resource)
    \/ \E key \in RegistryKeys \cup UnknownKeys : Get(key)
    \/ List

SpecRegistry == Init /\ [][NextRegistry]_vars

\* Fetch alone: it is called on every kind, again and again, against a remote
\* side that holds up to MaxItems items and may fail any one list call or
\* any one detail call.
NextFetch ==
    \E k \in AllKinds, n \in 0..MaxItems :
        \E failAt \in 0..Len(RemotePages(n)),
           failDetail \in (IF DetailPolicy(k) = "none" THEN {0} ELSE 0..n),
           negligible \in (IF k = "billing" THEN 0..n ELSE {0}) :
            CallFetch(k, n, failAt, failDetail, negligible)

SpecFetch == Init /\ [][NextFetch]_vars


\* Calls made on their own: EmptyBucket against a bucket whose listings answer
\* with pages of every size around the batch size, with any one remote call
\* failing; and the menu set up over a registry that lists its keys in any
\* order, a filter typed into its search field and Enter pressed there (the
\* resources Enter selects are in selected: one, or none).
NextCalls ==
    \/ \E sizes \in {<<0>>, <<2, 1>>, <<maxBatchSize, 1>>, <<0, 2>>},
          deleted \in 0..1,
          left \in {<<0>>, <<1, 2>>, <<maxBatchSize + 1>>},
          failAt \in 0..MaxRemoteCalls :
           /\ probe' =
                 [op |-> "EmptyBucket",
                  versions |-> BucketListing(sizes, "v1"),
                  markers  |-> BucketListing([p \in DOMAIN sizes |-> deleted], "v2"),
                  objects  |-> BucketListing(left, None),
                  failAt   |-> failAt,
                  result   |-> EmptyBucket(BucketListing(sizes, "v1"),
                                   BucketListing([p \in DOMAIN sizes |-> deleted], "v2"),
                                   BucketListing(left, None), failAt)]
           /\ UNCHANGED <<sessionVars, registry, registered>>
    \/ \E keys \in MapRange([k \in {<<"e", "c", "2">>, <<"s", "3">>,
                                    <<"e", "c", "s">>} |-> k]),
          n \in 0..MaxFilter :
           \E filter \in [1..n -> {"e", "E", "c", "3"}] :
               LET items == populateMenuList(setupResourceMenu(keys), filter)
               IN  /\ probe' = [op |-> "Menu", keys |-> keys, filter |-> filter,
                                items |-> items,
                                selected |-> IF Len(items) > 0
                                             THEN <<items[1]>> ELSE <<>>]
                   /\ UNCHANGED <<sessionVars, registry, registered>>

SpecCalls == Init /\ [][NextCalls]_vars

\* ------------------------------------------------------------------ claims
\* C1: at no time are two fetches in flight for the same resource, whatever
\* triggered them (two refreshes in a row dispatch one fetch, not two).
C1_OneFetchPerResource ==
    \A i, j \in DOMAIN fetches :
        (i /= j /\ fetches[i].pc = "run" /\ fetches[j].pc = "run")
            => fetches[i].res /= fetches[j].res

\* C2: when the result of a fetch of resource A is applied while another
\* resource B is selected, it is discarded: B's row cache, the table, its
\* title and the status stay as they are.
C2_StaleResultDiscarded ==
    [][(/\ updates /= <<>>
        /\ Head(updates).kind = "fetch"
        /\ Head(updates).res /= current
        /\ ApplyUpdate)
       => (/\ cache'[current] = cache[current]
           /\ tableRows' = tableRows
           /\ tableTitle' = tableTitle
           /\ status' = status)]_vars

\* C3: when Fetch has returned an error, the row cache of the resource is what
\* it was before Fetch was called (stated for a fetch that runs alone, on every
\* resource kind and at every call that can fail).
C3_FailedFetchKeepsCache ==
    \A j \in DOMAIN updates :
        (updates[j].kind = "fetch" /\ updates[j].err /\ cycle.lone)
            => cache[updates[j].res] = cycle.before

\* C4: when a refresh (one that runs alone) ends with a fetch failure, the rows
\* that were on screen before it started are on screen, the status shows the
\* error and the session runs on.
C4_FailureKeepsDisplayedRows ==
    [][(/\ updates /= <<>>
        /\ Head(updates).kind = "fetch"
        /\ Head(updates).err
        /\ cycle.lone
        /\ ApplyUpdate)
       => (/\ tableRows' = cycle.shown
           /\ status'.kind = "error"
           /\ ~crashed')]_vars

\* C5: at any time at most one ticker is active, and at most one listener
\* goroutine is alive (no listener started earlier survives a restart).
C5_OneTimerNoLeak ==
    /\ Cardinality({k \in DOMAIN tickers : tickers[k].active}) <= 1
    /\ Cardinality({g \in DOMAIN listeners : listeners[g].pc /= "done"}) <= 1

\* C6: once auto-refresh has been toggled off, no timer-triggered refresh is
\* dispatched until it is toggled on again.
C6_NoFireAfterToggleOff ==
    [][(\E g \in DOMAIN listeners : ListenerRefresh(g) /\ fetches' /= fetches)
       => autoRefresh]_vars

\* C7: while the session runs, the ticker handle is present exactly when
\* auto-refresh is enabled and a resource is selected, and the ticker it names
\* is running; toggling on with a resource selected makes a new ticker.
C7_TimerIffEnabledAndSelected ==
    /\ [](~stopClosed =>
            /\ (refreshTicker /= Nil) <=> (autoRefresh /\ current /= None)
            /\ refreshTicker /= Nil => tickers[refreshTicker].active)
    /\ [][(toggleAutoRefresh /\ ~autoRefresh /\ current /= None)
          => (/\ refreshTicker' = Len(tickers) + 1
              /\ tickers'[refreshTicker'] = [active |-> TRUE, pending |-> FALSE])]_vars

\* C7 witness: auto-refresh was toggled off and on again with a resource
\* selected; the second ticker is the one in use and the first is stopped.
C7_Witness ==
    /\ ~stopClosed
    /\ current /= None
    /\ autoRefresh
    /\ status.kind = "items"
    /\ refreshTicker = 2
    /\ ~tickers[1].active

\* C8: selectResource with a key that is not registered leaves the selection
\* as it is, dispatches no fetch, does not touch the timer and reports the
\* unknown resource in the status line.
C8_UnknownKeyRejected ==
    [][\A key \in UnknownKeys :
          SelectUnregistered(key)
              => (/\ current' = current
                  /\ fetches' = fetches
                  /\ refreshTicker' = refreshTicker
                  /\ tickers' = tickers
                  /\ listeners' = listeners
                  /\ status' = Status("unknown", key, 0))]_vars

\* C8 witness: the unknown key was given while a resource was selected and its
\* ticker was running.
C8_Witness ==
    /\ status.kind = "unknown"
    /\ current /= None
    /\ refreshTicker /= Nil
    /\ tickers[refreshTicker].active

\* The highlighted row of the table names no entity of resource k.
NothingSelected(k) == selRow <= 0 \/ GetID(k, selRow - 1) = ""

\* C9: a quick action that needs a selection, asked for when no data row is
\* highlighted or when the highlighted row resolves to no identifier, shows no
\* confirmation prompt and calls no handler.
C9_NoSelectionNoHandler ==
    [][(\/ (\E action \in EC2Actions : handleEC2Action(action)) /\ NothingSelected("ec2")
        \/ (handleS3Delete \/ handleS3Empty) /\ NothingSelected("s3"))
       => (/\ frontPage' /= "confirm"
           /\ confirm' = NoConfirm
           /\ actions' = actions)]_vars

\* C9 witness: a row is highlighted that resolves to no identifier (the cache
\* was emptied by a running fetch) and the quick action was turned down.
C9_Witness ==
    /\ status.kind = "no-id"
    /\ selRow > 0
    /\ frontPage = "main"
    /\ actions = <<>>

\* C10: a confirmation answered with No, or dismissed with Escape, calls no
\* handler and triggers no refresh.
C10_DeclineDoesNothing ==
    [][(ConfirmDone("No") \/ ConfirmEscape)
       => (/\ actions' = actions
           /\ fetches' = fetches
           /\ updates' = updates
           /\ status' = status)]_vars

\* C10 witness: a prompt is open for a resolved identifier, so that it can be
\* declined (a declined prompt leaves no trace in the state).
C10_Witness ==
    /\ frontPage = "confirm"
    /\ confirm.id /= ""
    /\ actions = <<>>

\* C11: when the closure of a completed quick action runs, it shows a provider
\* error in the status line if there was one, and it dispatches a refresh of
\* the current resource, whether the handler succeeded or failed.
C11_ActionEndsWithRefresh ==
    [][(/\ updates /= <<>>
        /\ Head(updates).kind \in ActionKinds
        /\ ApplyUpdate)
       => (/\ Head(updates).err => status'.kind = "action-failed"
           /\ fetches' = Append(fetches, NewFetch))]_vars

\* C12: when the closure of a switch that succeeded runs, the client reports
\* the region (the profile) that was asked for, and the closure dispatches
\* exactly one fetch when a resource is selected and none when none is.
C12_SwitchTakesEffect ==
    [][(/\ updates /= <<>>
        /\ Head(updates).kind \in SwitchKinds
        /\ ~Head(updates).err
        /\ ApplyUpdate)
       => (/\ Head(updates).kind = "region" => client.region = Head(updates).res
           /\ Head(updates).kind = "profile" => client.profile = Head(updates).res
           /\ fetches' = IF current = None THEN fetches ELSE Append(fetches, NewFetch))]_vars

\* C12 witness: a switch to the other region has succeeded with a resource
\* selected, and its closure has run: the header shows the region, the fetch
\* is under way.
C12_Witness ==
    /\ header.region = "eu-west-1"
    /\ client.region = "eu-west-1"
    /\ current /= None
    /\ Len(fetches) = 1
    /\ status.kind = "loading"

\* C13: a switch that fails changes nothing but the status line: starting it
\* leaves the client, the header, the rows and the fetches as they are, the
\* failing SetRegion or SetProfile leaves the client (region, profile, every
\* handle) as it is, and its closure shows the error and leaves the client,
\* the header and the rows as they are and dispatches no refresh.
C13_FailedSwitchChangesNothing ==
    /\ [][(\E key \in {"Enter", "Tab"}, text \in Regions \cup Profiles \cup {""} :
              SwitchInputDone(key, text))
          => UNCHANGED <<client, header, tableRows, tableTitle, fetches>>]_vars
    /\ [][(\E i \in DOMAIN reconfigs : ReconfigLoad(i, FALSE))
          => UNCHANGED <<client, header, tableRows, tableTitle, fetches>>]_vars
    /\ [][(/\ updates /= <<>>
           /\ Head(updates).kind \in SwitchKinds
           /\ Head(updates).err
           /\ ApplyUpdate)
          => (/\ UNCHANGED <<client, header, tableRows, tableTitle, fetches>>
              /\ status' = Status("switch-failed", Head(updates).kind, 0))]_vars

\* C13 witness: a switch has failed while rows were on screen; the rows are
\* there, the client and the header are those of the start.
C13_Witness ==
    /\ status.kind = "switch-failed"
    /\ tableRows /= <<>>
    /\ client = InitClient
    /\ header = HeaderOf(InitClient)
    /\ fetches = <<>>

\* C14: while SetRegion or SetProfile is replacing the client's handles, no
\* fetch is running, no quick-action handler is running and no other
\* SetRegion or SetProfile is under way.
C14_ReconfigureExclusive ==
    \A i \in DOMAIN reconfigs :
        reconfigs[i].pc \in {"swap", "finish"}
            => (/\ \A j \in DOMAIN fetches : fetches[j].pc /= "run"
                /\ actions = <<>>
                /\ \A j \in DOMAIN reconfigs : j /= i => reconfigs[j].pc = "load")

\* A step of a background task: a fetch, action or switch goroutine, a ticker
\* or a listener goroutine.
BackgroundStep ==
    \/ Fetching
    \/ \E i \in 1..Len(actions), ok \in BOOLEAN : ActionCall(i, ok)
    \/ \E i \in 1..Len(reconfigs), ok \in BOOLEAN : ReconfigLoad(i, ok)
    \/ \E i \in 1..Len(reconfigs) : ReconfigSwap(i)
    \/ \E i \in 1..Len(reconfigs) : ReconfigFinish(i)
    \/ Listening

\* C15: no step of a background task changes what the user sees (the status
\* line, the rows and the title of the table, the header); such changes are
\* made by the updates the event loop runs.
C15_BackgroundNeverTouchesUI ==
    [][BackgroundStep => UNCHANGED <<status, tableRows, tableTitle, header>>]_vars

\* C16: when a quick action resolves the highlighted row, a row that is drawn,
\* to an identifier, the identifier is the one drawn in that row of the table.
C16_RowIdentifierAligned ==
    [][(/\ \/ \E action \in EC2Actions : handleEC2Action(action)
           \/ handleS3Delete
           \/ handleS3Empty
        /\ frontPage' = "confirm"
        /\ selRow <= Len(tableRows))
       => confirm'.id = tableRows[selRow][1]]_vars

\* C17: when the closure of a successful fetch of the selected resource runs,
\* the table shows as many data rows as the cache of that resource holds, and
\* the status line gives that number of items.
C17_RowCountMatchesStatus ==
    [][(/\ updates /= <<>>
        /\ Head(updates).kind = "fetch"
        /\ ~Head(updates).err
        /\ ApplyUpdate)
       => (/\ Head(updates).res = current
           /\ Len(tableRows') = Len(cache[current])
           /\ status' = Status("items", Name(current), Len(cache[current])))]_vars

\* C17 witness: the EC2 instances were selected and fetched: both instances
\* are on screen and the status line counts two items.
C17_Witness ==
    /\ current = "ec2"
    /\ Idle
    /\ Len(cache["ec2"]) = 2
    /\ Len(tableRows) = 2
    /\ status = Status("items", "EC2 Instances", 2)

\* C18: for every resource kind of the default registry and every row cache a
\* successful fetch leaves, every row Rows() returns has exactly as many cells
\* as Columns() has columns.
C18_RowArityMatchesColumns ==
    probe.op = "Rows" =>
        \A i \in 1..Len(probe.rows) :
            Len(probe.rows[i]) = Len(Columns(probe.kind))

\* Rows() of billing was called on a full cache: the two summary rows and one
\* row per entry came back.
C18_Witness ==
    /\ probe.op = "Rows"
    /\ probe.kind = "billing"
    /\ Len(probe.entities) = MaxEntities
    /\ Len(probe.rows) = MaxEntities + 2

\* C19 (as amended): for every resource kind, GetID(index) never panics, and
\* returns the empty string for every index that is negative or not less than
\* the number of rows Rows() returns, the empty cache included.
C19_NoIdentifierOutsideRows ==
    probe.op = "GetID" =>
        /\ ~probe.result.panic
        /\ (probe.index < 0
            \/ probe.index >= Len(RowsOf(probe.kind, probe.entities)))
           => probe.result.id = <<>>

\* GetID was called with the first index past the rows, of billing and of a
\* kind without summary rows, and with a negative index on an empty cache.
C19_Witness ==
    /\ probe.op = "GetID"
    /\ probe.kind \in {"billing", "iam-policies"}
    /\ probe.index = Len(RowsOf(probe.kind, probe.entities))
    /\ probe.result = Returned(<<>>)

\* C19 (as stated): for every resource kind, GetID(index) never panics, and
\* returns the empty string for every index that is negative or not less than
\* the number of cached entities.
C19_NoIdentifierOutsideCache ==
    probe.op = "GetID" =>
        /\ ~probe.result.panic
        /\ (probe.index < 0 \/ probe.index >= Len(probe.entities))
           => probe.result.id = <<>>

\* The Register calls made with a key, by their place in the call order.
RegisteredAt(key) == {i \in DOMAIN registered : registered[i].key = key}

\* C20: after any sequence of Register calls, Get(k) returns the resource of
\* the last Register call made with k, and reports not-found (no failure) for
\* a key no call was made with; List returns every registered key exactly
\* once, and nothing else.
C20_LastWriteWins ==
    /\ probe.op = "Get" =>
           IF RegisteredAt(probe.key) = {}
           THEN probe.result = [res |-> None, ok |-> FALSE]
           ELSE \E last \in RegisteredAt(probe.key) :
                    /\ \A i \in RegisteredAt(probe.key) : i <= last
                    /\ probe.result = [res |-> registered[last].res, ok |-> TRUE]
    /\ probe.op = "List" =>
           /\ \A i \in DOMAIN registered :
                  Cardinality({j \in DOMAIN probe.keys :
                                   probe.keys[j] = registered[i].key}) = 1
           /\ \A j \in DOMAIN probe.keys : RegisteredAt(probe.keys[j]) # {}

\* Get was called with a key registered twice, with two different resources,
\* and answered with the second.
C20_Witness ==
    /\ probe.op = "Get"
    /\ \E i, j \in RegisteredAt(probe.key) :
           /\ i < j
           /\ registered[i].res # registered[j].res
           /\ probe.result = [res |-> registered[j].res, ok |-> TRUE]

C22_TimerJoinedAtShutdown ==
    /\ [](stopClosed =>
            /\ refreshTicker = Nil
            /\ \A k \in DOMAIN tickers : ~tickers[k].active
            /\ \A g \in DOMAIN listeners : listeners[g].pc = "done")
    /\ [][stopClosed => Len(fetches') <= Len(fetches)]_vars

\* C23: once the session has shut down with a fetch in flight, the context of
\* the session is cancelled, so that the fetch goes no further: its goroutine
\* does not start Fetch, and no remote call of it is answered.
C23_QuitCancelsTasks ==
    /\ [](stopClosed /\ fetches /= <<>> => ctxDone)
    /\ [][stopClosed =>
            \A i \in DOMAIN fetches : ~FetchStart(i) /\ ~FetchCall(i, TRUE)]_vars

\* C24: for every kind whose list call answers in pages, a Fetch that
\* succeeds (every detail call answered) has read all the pages: the cache
\* holds the entity of every item of every page.
C24_AllPagesDrained ==
    (/\ probe.op = "Fetch"
     /\ probe.kind \in PagedKinds
     /\ ~probe.result.err
     /\ probe.failDetail = 0)
    => \A p \in DOMAIN probe.pages : \A i \in DOMAIN probe.pages[p] :
           \E j \in DOMAIN probe.result.cache :
               probe.result.cache[j].no = probe.pages[p][i]

C28_FailedDetailKeepsItem ==
    (/\ probe.op = "Fetch"
     /\ DetailPolicy(probe.kind) \in {"keep", "drop"}
     /\ probe.failAt = 0
     /\ probe.failDetail /= 0)
    => /\ ~probe.result.err
       /\ \E j \in DOMAIN probe.result.cache :
              /\ probe.result.cache[j].no = probe.failDetail
              /\ probe.result.cache[j].detail = ""

\* C26: a quick-action key pressed when no resource is selected, or when the
\* resource selected is of another kind than the action's, changes the status
\* line and nothing else: no prompt or input opens, no handler is called, no
\* fetch is dispatched, and the selection and the table stay as they are.
C26_WrongKindOnlyStatus ==
    [][(\/ (\E action \in EC2Actions : handleEC2Action(action)) /\ current /= "ec2"
        \/ (handleS3Create \/ handleS3Delete \/ handleS3Empty) /\ current /= "s3")
       => (/\ status'.kind = "not-available"
           /\ frontPage' = "main"
           /\ confirm' = confirm
           /\ actions' = actions
           /\ fetches' = fetches
           /\ updates' = updates
           /\ current' = current
           /\ selRow' = selRow
           /\ tableRows' = tableRows)]_vars

\* C26 witness: an S3 key was pressed while the EC2 instances are shown with a
\* row highlighted, and was turned down.
C26_Witness ==
    /\ status = Status("not-available", "s3", 0)
    /\ current = "ec2"
    /\ selRow > 0
    /\ frontPage = "main"
    /\ actions = <<>>

\* C27: the event loop never waits: every update it runs returns at once, so
\* keys keep being handled while a fetch, an action or the delay after an
\* action is pending.
C27_EventLoopNeverWaits ==
    [][ApplyUpdate => BlockedFor(Head(updates)) = 0]_vars

\* C29: selecting a registered resource clears the row selection: once the
\* table of the resource selected is rendered no data row is highlighted, so a
\* quick action pressed before the user picks a row is turned down for want
\* of a row.
C29_SelectClearsRowSelection ==
    [][(ApplyUpdate /\ Head(updates).kind = "fetch" /\ ~Head(updates).err)
       => selRow' = 0]_vars

\* C30: a refresh triggered by the timer is dispatched only in a state where
\* auto-refresh is enabled and a resource is selected, and a tick the listener
\* examines while auto-refresh is disabled or nothing is selected dispatches
\* nothing: the listener goes back to its select.
C30_TimerRefreshOnlyWhenEnabled ==
    /\ [][\A g \in DOMAIN listeners :
            (ListenerRefresh(g) /\ Len(fetches') > Len(fetches)) => tickCondition]_vars
    /\ [][\A g \in DOMAIN listeners :
            (ListenerCheck(g) /\ ~tickCondition)
                => (listeners'[g].pc = "enter" /\ fetches' = fetches)]_vars

\* C34: while the session runs the listener goroutine never evaluates the
\* timer handle when it is nil: whatever the interleaving of toggles, selects
\* and ticks, the session does not crash.
C34_ListenerNeverReadsNilTimer ==
    ~stopClosed => ~crashed

\* C35: a fetch goroutine fetches the resource that was current when its
\* refresh was asked for: with the EC2 instances selected and then the S3
\* buckets before the first goroutine has run, that goroutine still fetches
\* the EC2 instances.
C35_FetchesRequestedResource ==
    [][(/\ Len(fetches) = 2
        /\ current = "s3"
        /\ FetchStart(1))
       => fetches'[1].res = "ec2"]_vars

\* C36: whenever no fetch is running on a resource its row cache is what one
\* complete fetch leaves, even when refreshes of the resource overlapped: in
\* particular no entity is in the row cache twice.
C36_NoDuplicateRowsAfterOverlap ==
    \A r \in RegistryKeys :
        (\A i \in DOMAIN fetches : fetches[i].pc = "run" => fetches[i].res /= r)
            => \A m, n \in DOMAIN cache[r] : m /= n => cache[r][m].id /= cache[r][n].id

\* C37: when every switch asked for has ended, two that overlapped included,
\* every service handle of the client is configured for the region and the
\* profile that Region() and Profile() report.
C37_HandlesMatchReportedPair ==
    reconfigs = <<>> =>
        \A s \in Services : client.handles[s] = Config(client.region, client.profile)

\* C38: the handler a confirmed quick action starts is given the identifier
\* the prompt shows (and the action it names), also when a refresh has
\* replaced the row cache between the prompt and the answer.
C38_HandlerGetsPromptIdentifier ==
    [][(ConfirmDone("Yes") /\ Len(actions') > Len(actions))
       => (/\ actions'[Len(actions')].id = confirm.id
           /\ actions'[Len(actions')].action = confirm.action
           /\ actions'[Len(actions')].kind = confirm.kind)]_vars

\* C38 witness: a stop of instance i-1 was confirmed and its handler runs
\* with i-1, while the row cache, replaced by a refresh since the prompt was
\* shown, no longer gives i-1 for the highlighted row.
C38_Witness ==
    /\ actions /= <<>>
    /\ actions[1].kind = "ec2"
    /\ actions[1].id = "i-1"
    /\ current = "ec2"
    /\ selRow = 1
    /\ GetID("ec2", selRow - 1) /= "i-1"
    /\ status = Status("in-progress", "ec2", 0)

C40_BillingIdentifierMatchesRow ==
    (probe.op = "GetID" /\ probe.kind = "billing") =>
        LET rows == RowsOf("billing", probe.entities)
        IN  /\ Len(rows) = Len(probe.entities) + 2
            /\ probe.index \in {0, 1} => probe.result = Returned(<<>>)
            /\ (probe.index >= 2 /\ probe.index < Len(rows))
                   => probe.result = Returned(rows[probe.index + 1][1])

\* C40 witness: GetID was called with the index of the last row of a billing
\* table of two entries and gave the service name of the second entry.
C40_Witness ==
    /\ probe.op = "GetID"
    /\ probe.kind = "billing"
    /\ Len(probe.entities) = 2
    /\ probe.index = 3
    /\ probe.result = Returned(Field(probe.entities[2], "Service"))
    /\ probe.result.id /= <<>>

\* C31: every refresh dispatched and every quick action executed comes to an
\* end, given that the remote calls return: a status of Loading is in the end
\* replaced by the count of items or by an error, a status of an action under
\* way by the outcome of the action (or of the refresh a success starts), and
\* of the action goroutines that run one ends, whatever the outcome and
\* whatever resource is selected in the meantime.
C31_EveryDispatchCompletes ==
    /\ (status.kind = "loading") ~> (status.kind \in {"items", "error"})
    /\ (status.kind = "in-progress")
           ~> (status.kind \in {"action-done", "action-failed", "items", "error"})
    /\ (Len(actions) = MaxActions) ~> (Len(actions) < MaxActions)

\* C31 witness: the S3 buckets were selected while a fetch of the EC2
\* instances was running; the refresh of the S3 buckets has ended with the
\* count of items on the status line and the earlier fetch still runs.
C31_Witness ==
    /\ current = "s3"
    /\ status.kind = "items"
    /\ \E i \in DOMAIN fetches : fetches[i].pc = "run" /\ fetches[i].res = "ec2"

\* C32: for any filter the menu lists exactly the keys of the registry that
\* hold the filter when case is ignored (every key for the empty filter), each
\* once and in ascending lexicographic order; Enter in the search field
\* selects the first listed key, and selects nothing when the list is empty.
C32_MenuListsMatchingKeysSorted ==
    probe.op = "Menu" =>
        LET Fold(ch) == CASE ch \in {"e", "E"} -> "E" [] ch \in {"c", "C"} -> "C"
                          [] ch \in {"s", "S"} -> "S" [] OTHER -> ch
            Matches(key) ==
                \E k \in 0..(Len(key) - Len(probe.filter)) :
                    \A j \in 1..Len(probe.filter) :
                        Fold(key[k + j]) = Fold(probe.filter[j])
            Byte(ch) == CASE ch = "2" -> 50 [] ch = "3" -> 51 [] ch = "c" -> 99
                          [] ch = "e" -> 101 [] ch = "s" -> 115
            Before(a, b) ==
                \E k \in 1..Len(b) :
                    /\ \A j \in 1..(k - 1) : j <= Len(a) /\ a[j] = b[j]
                    /\ k <= Len(a) => Byte(a[k]) < Byte(b[k])
                    /\ k - 1 <= Len(a)
            matching == {probe.keys[i] : i \in {j \in DOMAIN probe.keys :
                                                   Matches(probe.keys[j])}}
        IN  /\ {probe.items[i] : i \in DOMAIN probe.items} = matching
            /\ \A i, j \in DOMAIN probe.items :
                   i < j => Before(probe.items[i], probe.items[j])
            /\ matching = {} => probe.selected = <<>>
            /\ matching # {} =>
                   /\ Len(probe.selected) = 1
                   /\ probe.selected[1] \in matching
                   /\ \A key \in matching \ {probe.selected[1]} :
                          Before(probe.selected[1], key)

C32_Witness ==
    /\ probe.op = "Menu"
    /\ probe.keys = << <<"s", "3">>, <<"e", "c", "s">>, <<"e", "c", "2">> >>
    /\ probe.filter = <<"E", "c">>
    /\ probe.items = << <<"e", "c", "2">>, <<"e", "c", "s">> >>
    /\ probe.selected = << <<"e", "c", "2">> >>

====
